---- MODULE Spec2Model ----
(***************************************************************************)
(* Verification model of the zeroize-audit evidence engine                 *)
(* (plugins/zeroize-audit/skills/zeroize-audit/tools).                     *)
(*                                                                         *)
(* Every tool of the engine is a single-threaded batch program, so each    *)
(* tool has its own variables and its own specification:                   *)
(*   SpecGate  mcp/apply_confidence_gates.py                               *)
(*   SpecIR    scripts/check_llvm_patterns.py, levels O0 and O2            *)
(*   SpecIRMulti  the same with the optional levels O1 and O3              *)
(*   SpecCFG   analyze_cfg.py                                              *)
(*   SpecMIR   scripts/check_mir_patterns.py                               *)
(*   SpecAsm   scripts/check_rust_asm.py (+ check_rust_asm_x86.py)         *)
(*   SpecPoc   generate_poc.py, the finding filter                         *)
(*   SpecFlags extract_compile_flags.py                                    *)
(*   SpecGen   generate_poc.py, run                                        *)
(*   SpecScan  scripts/find_dangerous_apis.py                              *)
(*   SpecX86   scripts/check_rust_asm_x86.py                               *)
(*   SpecAsmMain  scripts/check_rust_asm.py, main and the AArch64 checks   *)
(*   SpecDom  analyze_cfg.py, compute_dominators step by step              *)
(*   SpecPaths  analyze_cfg.py, find_all_paths_to_exit step by step        *)
(*   SpecIRFn  scripts/check_llvm_patterns.py, several functions           *)
(*   SpecAsync  scripts/find_dangerous_apis.py, scan_async_suspension      *)
(*   SpecUnroll  analyze_ir_semantic.py, detect_loop_unrolled_wipes        *)
(*   SpecSem  analyze_ir_semantic.py, parse_ir                             *)
(* SpecDomFair, SpecPathsFair and SpecAsyncFair add weak fairness of the   *)
(* steps of the program.                                                   *)
(* A specification leaves the variables of the other tools at their idle   *)
(* values.                                                                 *)
(*                                                                         *)
(* The evidence text of the confidence gate is modelled as a sequence of   *)
(* atoms.  An atom is a one-character string, or a longer string standing  *)
(* for a fixed run of characters that holds no upper-case letter, no white *)
(* space and no "asm".                                                     *)
(***************************************************************************)
EXTENDS Integers, Sequences, FiniteSets, TLC

VARIABLES
    g_input, g_report, g_summary, g_mcp, g_req, g_idx, g_pc,
    ir_present, ir_text, ir_findings, ir_pc,
    cfg_prog, cfg_src, cfg_line, cfg_builder, cfg_result, cfg_pc,
    mir_text, mir_secrets, mir_out, mir_pc,
    asm_in, asm_rustfilt, asm_lines, asm_functions, asm_idx,
    asm_raw, asm_counts, asm_output, asm_pc,
    poc_findings, poc_min_confidence, poc_selected, poc_idx, poc_result, poc_pc,
    fl_arguments, fl_raw, fl_flags, fl_rule, fl_pc,
    gen_findings, gen_min_confidence, gen_exploitable, gen_idx, gen_files,
    gen_targets, gen_entries, gen_count, gen_manifest, gen_pc,
    scan_lines, scan_pattern, scan_lineno, scan_in_block_comment, scan_findings, scan_pc,
    x86_lines, x86_findings, x86_pc,
    am_asm, am_secrets, am_rustfilt, am_arch, am_names, am_functions, am_idx, am_raw, am_counts, am_output, am_written, am_exit, am_pc,
    gr_builder, dom_sets, dom_todo, dom_changed, dfs_stack, dfs_path, dfs_paths, gr_pc,
    as_lines, as_i, as_j, as_depth, as_in_body, as_body_lines, as_findings, as_pc,
    uw_blocks, uw_bb, uw_findings, uw_pc,
    sem_lines, sem_line_num, sem_functions, sem_current_function, sem_current_block, sem_pc

gateVars == <<g_input, g_report, g_summary, g_mcp, g_req, g_idx, g_pc>>

irVars == <<ir_present, ir_text, ir_findings, ir_pc>>

cfgVars == <<cfg_prog, cfg_src, cfg_line, cfg_builder, cfg_result, cfg_pc>>

mirVars == <<mir_text, mir_secrets, mir_out, mir_pc>>

asmVars == <<asm_in, asm_rustfilt, asm_lines, asm_functions, asm_idx,
             asm_raw, asm_counts, asm_output, asm_pc>>

pocVars == <<poc_findings, poc_min_confidence, poc_selected, poc_idx, poc_result, poc_pc>>

flVars == <<fl_arguments, fl_raw, fl_flags, fl_rule, fl_pc>>

genVars == <<gen_findings, gen_min_confidence, gen_exploitable, gen_idx, gen_files,
             gen_targets, gen_entries, gen_count, gen_manifest, gen_pc>>

scanVars == <<scan_lines, scan_pattern, scan_lineno, scan_in_block_comment, scan_findings, scan_pc>>

x86Vars == <<x86_lines, x86_findings, x86_pc>>

amVars == <<am_asm, am_secrets, am_rustfilt, am_arch, am_names, am_functions, am_idx, am_raw, am_counts, am_output, am_written, am_exit, am_pc>>

graphVars == <<gr_builder, dom_sets, dom_todo, dom_changed, dfs_stack, dfs_path, dfs_paths, gr_pc>>

asyncVars == <<as_lines, as_i, as_j, as_depth, as_in_body, as_body_lines, as_findings, as_pc>>

unrollVars == <<uw_blocks, uw_bb, uw_findings, uw_pc>>

semVars == <<sem_lines, sem_line_num, sem_functions, sem_current_function, sem_current_block, sem_pc>>

vars == <<gateVars, irVars, cfgVars, mirVars, asmVars, pocVars, flVars, genVars, scanVars, x86Vars, amVars, graphVars, asyncVars, unrollVars, semVars>>

\* the variables of the other tools, per tool
notGate == <<irVars, cfgVars, mirVars, asmVars, pocVars, flVars, genVars, scanVars, x86Vars, amVars, graphVars, asyncVars, unrollVars, semVars>>
notIR == <<gateVars, cfgVars, mirVars, asmVars, pocVars, flVars, genVars, scanVars, x86Vars, amVars, graphVars, asyncVars, unrollVars, semVars>>
notCFG == <<gateVars, irVars, mirVars, asmVars, pocVars, flVars, genVars, scanVars, x86Vars, amVars, graphVars, asyncVars, unrollVars, semVars>>
notMIR == <<gateVars, irVars, cfgVars, asmVars, pocVars, flVars, genVars, scanVars, x86Vars, amVars, graphVars, asyncVars, unrollVars, semVars>>
notAsm == <<gateVars, irVars, cfgVars, mirVars, pocVars, flVars, genVars, scanVars, x86Vars, amVars, graphVars, asyncVars, unrollVars, semVars>>
notPoc == <<gateVars, irVars, cfgVars, mirVars, asmVars, flVars, genVars, scanVars, x86Vars, amVars, graphVars, asyncVars, unrollVars, semVars>>
notFlags == <<gateVars, irVars, cfgVars, mirVars, asmVars, pocVars, genVars, scanVars, x86Vars, amVars, graphVars, asyncVars, unrollVars, semVars>>
notGen == <<gateVars, irVars, cfgVars, mirVars, asmVars, pocVars, flVars, scanVars, x86Vars, amVars, graphVars, asyncVars, unrollVars, semVars>>
notScan == <<gateVars, irVars, cfgVars, mirVars, asmVars, pocVars, flVars, genVars, x86Vars, amVars, graphVars, asyncVars, unrollVars, semVars>>
notX86 == <<gateVars, irVars, cfgVars, mirVars, asmVars, pocVars, flVars, genVars, scanVars, amVars, graphVars, asyncVars, unrollVars, semVars>>
notAsmMain == <<gateVars, irVars, cfgVars, mirVars, asmVars, pocVars, flVars, genVars, scanVars, x86Vars, graphVars, asyncVars, unrollVars, semVars>>
notGraph == <<gateVars, irVars, cfgVars, mirVars, asmVars, pocVars, flVars, genVars, scanVars, x86Vars, amVars, asyncVars, unrollVars, semVars>>
notAsync == <<gateVars, irVars, cfgVars, mirVars, asmVars, pocVars, flVars, genVars, scanVars, x86Vars, amVars, graphVars, unrollVars, semVars>>
notUnroll == <<gateVars, irVars, cfgVars, mirVars, asmVars, pocVars, flVars, genVars, scanVars, x86Vars, amVars, graphVars, asyncVars, semVars>>
notSem == <<gateVars, irVars, cfgVars, mirVars, asmVars, pocVars, flVars, genVars, scanVars, x86Vars, amVars, graphVars, asyncVars, unrollVars>>

(***************************************************************************)
(* Generic helpers                                                         *)
(***************************************************************************)
Range(s) == {s[i] : i \in 1..Len(s)}

SeqsUpTo(S, n) == UNION {[1..k -> S] : k \in 0..n}

(***************************************************************************)
(* Python str helpers used by the tools                                    *)
(***************************************************************************)
\* str.lower() on one atom
LowerAtom(a) ==
    CASE a = "A" -> "a"
      [] a = "S" -> "s"
      [] a = "M" -> "m"
      [] a = "I" -> "i"
      [] a = "R" -> "r"
      [] OTHER -> a

\* str.lower()
Lower(s) == [i \in 1..Len(s) |-> LowerAtom(s[i])]

\* `sub in s` for two texts
Contains(s, sub) ==
    \E i \in 0..(Len(s) - Len(sub)) :
        \A j \in 1..Len(sub) : s[i + j] = sub[j]

IsSpace(a) == a \in {" ", "\t"}

RECURSIVE LStrip(_)
LStrip(s) == IF s # <<>> /\ IsSpace(Head(s)) THEN LStrip(Tail(s)) ELSE s

RECURSIVE RStrip(_)
RStrip(s) ==
    IF s # <<>> /\ IsSpace(s[Len(s)]) THEN RStrip(SubSeq(s, 1, Len(s) - 1)) ELSE s

\* str.strip()
Strip(s) == RStrip(LStrip(s))

(***************************************************************************)
(* mcp/apply_confidence_gates.py                                           *)
(*                                                                         *)
(* A finding is a JSON object.  Its fields as the gate reads them:         *)
(*   id, category, confidence   strings                                    *)
(*   nr    the needs_review key: "absent", "true" or "false"               *)
(*   ev    the evidence key: kind "absent" (no key), "null" (JSON null),   *)
(*         "str" (text) or "list" (recs: the source tags of the evidence   *)
(*         records, the shape every analyzer writes)                       *)
(*   ce    the compiler_evidence key: kind "absent", "other" (present but  *)
(*         no JSON object) or "dict" (truthy: the keys holding a truthy    *)
(*         value, falsy: the keys holding a falsy one)                     *)
(***************************************************************************)
ADVANCED_MCP_CATEGORIES == {"SECRET_COPY", "MISSING_ON_ERROR_PATH", "NOT_DOMINATING_EXITS"}

ASM_REQUIRED_CATEGORIES == {"STACK_RETENTION", "REGISTER_SPILL"}

NoteOpt == <<" ", "[gated: missing IR/ASM evidence for optimized-away claim]">>
NoteAsm == <<" ", "[gated: missing assembly evidence]">>
NoteMcp == <<" ", "[gated: MCP unavailable for advanced semantic finding]">>

has_compiler_evidence(f) ==
    IF f.ce.kind # "dict"
    THEN FALSE
    ELSE \E key \in {"o0", "o2", "diff_summary"} : key \in f.ce.truthy

has_marker(text, marker) == Contains(Lower(text), marker)

\* (finding.get("evidence") or "").lower(): a non-empty list has no lower()
EvidenceLowerRaises(f) == f.ev.kind = "list" /\ f.ev.recs # <<>>

EvidenceLower(f) == IF f.ev.kind = "str" THEN Lower(f.ev.text) ELSE <<>>

\* finding.get("evidence", "") + note: only str + str is defined
ConcatRaises(f) == f.ev.kind \in {"null", "list"}

EvidenceOrEmpty(f) == IF f.ev.kind = "str" THEN f.ev.text ELSE <<>>

\* GateBody with a confidence downgrade added to the flag and the note
GateBodyDowngrade(s, note) ==
    IF ConcatRaises(s.f)
    THEN [f |-> [s.f EXCEPT !.nr = "true"], raised |-> TRUE]
    ELSE [f |-> [s.f EXCEPT !.nr = "true",
                            !.confidence = "needs_review",
                            !.ev = [kind |-> "str",
                                    text |-> Strip(EvidenceOrEmpty(s.f) \o note),
                                    recs |-> <<>>]],
          raised |-> FALSE]

\* The body of one gate: needs_review is set first, then the note is appended;
\* when the concatenation raises, needs_review stays set.
GateBody(s, note) ==
    IF ConcatRaises(s.f)
    THEN [f |-> [s.f EXCEPT !.nr = "true"], raised |-> TRUE]
    ELSE [f |-> [s.f EXCEPT !.nr = "true",
                            !.ev = [kind |-> "str",
                                    text |-> Strip(EvidenceOrEmpty(s.f) \o note),
                                    recs |-> <<>>]],
          raised |-> FALSE]

\* One `if` of the loop body: skipped once an earlier statement has raised.
GateIf(s, cond, note) == IF s.raised \/ ~cond THEN s ELSE GateBody(s, note)

\* The loop body for one finding: [f: the finding afterwards, raised: BOOLEAN]
GateFinding(f, mcp_available, require_mcp_for_advanced) ==
    IF EvidenceLowerRaises(f)
    THEN [f |-> f, raised |-> TRUE]
    ELSE
      LET evidence == EvidenceLower(f)
          s0 == [f |-> f, raised |-> FALSE]
          s1 == GateIf(s0, f.category \in {"OPTIMIZED_AWAY_ZEROIZE"}
                             /\ ~has_compiler_evidence(s0.f), NoteOpt)
          s2 == GateIf(s1, f.category \in ASM_REQUIRED_CATEGORIES
                             /\ ~has_marker(evidence, <<"a", "s", "m">>), NoteAsm)
          s3 == GateIf(s2, require_mcp_for_advanced /\ ~mcp_available
                             /\ f.category \in ADVANCED_MCP_CATEGORIES, NoteMcp)
      IN s3

\* ---- the inputs ----
MaxFindings == 2

EvAbsent == [kind |-> "absent", text |-> <<>>, recs |-> <<>>]
EvNull == [kind |-> "null", text |-> <<>>, recs |-> <<>>]
EvStr(t) == [kind |-> "str", text |-> t, recs |-> <<>>]
EvList(r) == [kind |-> "list", text |-> <<>>, recs |-> r]

CeAbsent == [kind |-> "absent", truthy |-> {}, falsy |-> {}]
CeOther == [kind |-> "other", truthy |-> {}, falsy |-> {}]
CeDict(t, u) == [kind |-> "dict", truthy |-> t, falsy |-> u]

GateEvidence ==
    { EvAbsent, EvNull,
      EvStr(<<>>),
      EvStr(<<"a", "s", "m">>),
      EvStr(<<"A", "S", "M", " ", "x">>),
      EvStr(<<"i", "r">>),
      EvStr(<<" ", "i", "r">>),
      EvList(<<>>),
      EvList(<<"asm">>),
      EvList(<<"llvm_ir">>) }

GateCompilerEvidence ==
    { CeAbsent, CeOther,
      CeDict({}, {}),
      CeDict({"o0", "o2"}, {}),
      CeDict({"diff_summary"}, {}),
      CeDict({"o1", "o3"}, {}),
      CeDict({}, {"o0"}) }

\* (category, evidence, compiler_evidence) of the first finding of a report
GateShapes ==
    ({"OPTIMIZED_AWAY_ZEROIZE"} \X {EvStr(<<"i", "r">>)} \X GateCompilerEvidence)
    \cup ({"OPTIMIZED_AWAY_ZEROIZE"}
        \X {EvAbsent, EvList(<<"llvm_ir">>)}
        \X {CeAbsent, CeDict({"o0", "o2"}, {})})
    \cup ({"STACK_RETENTION"} \X GateEvidence \X {CeAbsent})
    \cup ({"REGISTER_SPILL"} \X {EvStr(<<"i", "r">>), EvList(<<"asm">>)} \X {CeAbsent})
    \cup ({"SECRET_COPY"} \X {EvStr(<<" ", "i", "r">>), EvList(<<"llvm_ir">>)} \X {CeAbsent})
    \cup ({"MISSING_SOURCE_ZEROIZE"} \X {EvStr(<<" ", "i", "r">>)} \X {CeAbsent})

\* ... and of the findings after the first
GateLaterShapes ==
    { <<"STACK_RETENTION", EvStr(<<"i", "r">>), CeAbsent>>,
      <<"STACK_RETENTION", EvList(<<"asm">>), CeAbsent>>,
      <<"REGISTER_SPILL", EvStr(<<"a", "s", "m">>), CeAbsent>>,
      <<"OPTIMIZED_AWAY_ZEROIZE", EvStr(<<"i", "r">>), CeDict({"o1", "o3"}, {})>>,
      <<"SECRET_COPY", EvStr(<<" ", "i", "r">>), CeAbsent>>,
      <<"MISSING_SOURCE_ZEROIZE", EvAbsent, CeAbsent>> }

\* (confidence, needs_review) of the first finding of a report
GateConfidence ==
    { <<"confirmed", "absent">>, <<"likely", "false">>,
      <<"needs_review", "true">>, <<"confirmed", "true">> }

GateFindingOf(sh, cn) ==
    [id |-> 0, category |-> sh[1], confidence |-> cn[1], nr |-> cn[2],
     ev |-> sh[2], ce |-> sh[3]]

\* The reports fed to the gate: up to MaxFindings findings, ids in list order.
GateReports ==
    { <<>> } \cup
    UNION { { [i \in 1..k |->
                 [(IF i = 1 THEN GateFindingOf(first, cn)
                            ELSE GateFindingOf(rest[i], <<"confirmed", "absent">>))
                    EXCEPT !.id = i]] :
              first \in GateShapes, cn \in GateConfidence,
              rest \in [1..k -> GateLaterShapes] } :
            k \in 1..MaxFindings }

\* report.get("summary", {}): "absent", or a dict holding a stale count
GateSummaries == { [kind |-> "absent", issues_found |-> 0],
                   [kind |-> "dict", issues_found |-> 7] }

\* the gate is not run
GateIdle ==
    /\ g_input = <<>> /\ g_report = <<>>
    /\ g_summary = [kind |-> "absent", issues_found |-> 0]
    /\ g_mcp = FALSE /\ g_req = FALSE /\ g_idx = 1 /\ g_pc = "idle"

GateStart ==
    /\ g_input \in GateReports
    /\ g_report = g_input
    /\ g_summary \in GateSummaries
    /\ g_mcp \in BOOLEAN
    /\ g_req \in BOOLEAN
    /\ g_idx = 1
    /\ g_pc = "loop"

\* one iteration of `for finding in findings`
apply_gates_finding ==
    /\ g_pc = "loop"
    /\ g_idx <= Len(g_report)
    /\ LET r == GateFinding(g_report[g_idx], g_mcp, g_req)
       IN /\ g_report' = [g_report EXCEPT ![g_idx] = r.f]
          /\ g_pc' = IF r.raised THEN "raised" ELSE "loop"
          /\ g_idx' = IF r.raised THEN g_idx ELSE g_idx + 1
    /\ UNCHANGED <<g_input, g_summary, g_mcp, g_req>>
    /\ UNCHANGED notGate

\* after the loop: summary["issues_found"] = len(findings); return report
apply_gates_return ==
    /\ g_pc = "loop"
    /\ g_idx > Len(g_report)
    /\ g_summary' = IF g_summary.kind = "dict"
                    THEN [g_summary EXCEPT !.issues_found = Len(g_report)]
                    ELSE g_summary
    /\ g_pc' = "done"
    /\ UNCHANGED <<g_input, g_report, g_mcp, g_req, g_idx>>
    /\ UNCHANGED notGate

GateNext == apply_gates_finding \/ apply_gates_return

(***************************************************************************)
(* scripts/check_llvm_patterns.py                                          *)
(*                                                                         *)
(* An IR text is a sequence of lines.  A line is a record                  *)
(*   [k, sym, n, arg]                                                      *)
(* k = "vstore"    store volatile i8 0, ptr %sym   (sym = "": the          *)
(*                 destination is no `ptr %name` / `iN* %name`, such as a  *)
(*                 global @g)                                              *)
(* k = "memset"    call void @llvm.memset.*  n = 0: non-volatile,          *)
(*                 n = 1: `i1 true` flag, n = 2: unordered.atomic          *)
(* k = "alloca"    %sym = alloca [n x i8]                                  *)
(* k = "lifetime"  call void @llvm.lifetime.end(i64 n, ptr %sym)           *)
(* k = "ret"       ret i64 %sym                                            *)
(* k = "load"      %sym = load i64, ptr %arg                               *)
(* k = "call"      call void @sym(i64 %arg)   n = 1: the argument is       *)
(*                 passed byval                                            *)
(* k = "define"    define void @sym() {                                    *)
(* k = "other"     any line no pattern matches                             *)
(***************************************************************************)
SECRET_ALLOCA_SIZES == {16, 24, 32, 48, 64, 96, 128}

IRLevels == {"O0", "O1", "O2", "O3"}

IRLine(k, sym, n, arg) == [k |-> k, sym |-> sym, n |-> n, arg |-> arg]

\* SSA names of the model, in sorted() order
IRNames == <<"buf", "key">>

\* (?i)\w*(key|secret|password|token|nonce|seed|priv|master|credential)\w*
SecretNamed(name) == name \in {"key"}

\* (%\w*(key|secret|password|token|nonce|seed)\w*)\s*=\s*load
SecretLoadNamed(name) == name \in {"key"}

\* "zeroize" in callee.lower() or "memset" in callee.lower()
WipeCallee(callee) == callee \in {"zeroize", "memset"}

\* sorted(d.items()) over a set of names
SortedNames(S) == SelectSeq(IRNames, LAMBDA x : x \in S)

\* the members of a sequence of [emit, f] records that are emitted
Emitted(cands) ==
    LET kept == SelectSeq(cands, LAMBDA c : c.emit)
    IN [i \in 1..Len(kept) |-> kept[i].f]

count_volatile_stores(text) ==
    Cardinality({i \in 1..Len(text) : text[i].k = "vstore"})

\* the keys of extract_volatile_stores_by_target / extract_volatile_store_targets
extract_volatile_store_targets(text) ==
    {text[i].sym : i \in {j \in 1..Len(text) : text[j].k = "vstore" /\ text[j].sym # ""}}

extract_volatile_stores_by_target(text) ==
    [t \in extract_volatile_store_targets(text) |->
        Cardinality({i \in 1..Len(text) : text[i].k = "vstore" /\ text[i].sym = t})]

\* d.get(target, 0)
GetCount(d, t) == IF t \in DOMAIN d THEN d[t] ELSE 0

\* the keys of extract_allocas in insertion (first occurrence) order
AllocaOrder(text) ==
    LET idx == SelectSeq([i \in 1..Len(text) |-> i],
                   LAMBDA i : /\ text[i].k = "alloca"
                              /\ \A j \in 1..(i - 1) :
                                   ~(text[j].k = "alloca" /\ text[j].sym = text[i].sym))
    IN [i \in 1..Len(idx) |-> text[idx[i]].sym]

\* extract_allocas: a later alloca of the same name overwrites the size
extract_allocas(text) ==
    [a \in Range(AllocaOrder(text)) |->
        LET last == CHOOSE i \in 1..Len(text) :
                       /\ text[i].k = "alloca" /\ text[i].sym = a
                       /\ \A j \in (i + 1)..Len(text) :
                            ~(text[j].k = "alloca" /\ text[j].sym = a)
        IN text[last].n]

extract_lifetime_ends(text) ==
    {text[i].sym : i \in {j \in 1..Len(text) : text[j].k = "lifetime"}}

\* line numbers of the non-volatile @llvm.memset calls
find_nonvolatile_memsets(text) ==
    SelectSeq([i \in 1..Len(text) |-> i],
              LAMBDA i : text[i].k = "memset" /\ text[i].n = 0)

\* (lineno, symbol) of the returns of secret-named values
find_secret_returns(text) ==
    SelectSeq([i \in 1..Len(text) |-> i],
              LAMBDA i : text[i].k = "ret" /\ SecretNamed(text[i].sym))

\* line numbers of the calls passing a secret-named value in {...} or byval
find_secret_aggregate_passes(text) ==
    SelectSeq([i \in 1..Len(text) |-> i],
              LAMBDA i : text[i].k = "call" /\ SecretNamed(text[i].arg) /\ text[i].n = 1)

\* find_arg_load_calls: loaded_vars after the first i lines (a set: the model
\* has at most one tracked name per call argument)
\* loaded_vars without the clear() at a define line
RECURSIVE LoadedVarsNoReset(_, _)
LoadedVarsNoReset(text, i) ==
    IF i = 0 THEN {}
    ELSE IF text[i].k = "load" /\ SecretLoadNamed(text[i].sym)
         THEN LoadedVarsNoReset(text, i - 1) \cup {text[i].sym}
    ELSE LoadedVarsNoReset(text, i - 1)

RECURSIVE LoadedVars(_, _)
LoadedVars(text, i) ==
    IF i = 0 THEN {}
    ELSE IF text[i].k = "define" THEN {}
    ELSE IF text[i].k = "load" /\ SecretLoadNamed(text[i].sym)
         THEN LoadedVars(text, i - 1) \cup {text[i].sym}
    ELSE LoadedVars(text, i - 1)

find_arg_load_calls(text) ==
    SelectSeq([i \in 1..Len(text) |-> i],
              LAMBDA i : /\ text[i].k = "call"
                         /\ ~WipeCallee(text[i].sym)
                         /\ text[i].arg \in LoadedVars(text, i - 1))

\* make_finding without the id; sec names the check that emitted it (the form
\* of its detail text), a and b the two counts the detail text quotes
IRFinding(sec, category, severity, file, line, symbol, a, b) ==
    [id |-> 0, sec |-> sec, category |-> category, severity |-> severity,
     confidence |-> "likely", file |-> file, line |-> line, symbol |-> symbol,
     a |-> a, b |-> b]

\* section 1 with >= for >
TotalDropOrEqual(o0_vol_count, o2_vol_count) == o0_vol_count >= o2_vol_count

\* section 1: the condition of the total-count finding
TotalDrop(o0_vol_count, o2_vol_count) == o0_vol_count > o2_vol_count

Section1(o0_text, o2_text) ==
    LET o0_vol_count == count_volatile_stores(o0_text)
        o2_vol_count == count_volatile_stores(o2_text)
    IN IF TotalDrop(o0_vol_count, o2_vol_count)
       THEN << IRFinding("total", "OPTIMIZED_AWAY_ZEROIZE", "high", "O2", 0, "",
                         o0_vol_count, o2_vol_count) >>
       ELSE << >>

\* section 1b iterating the O2 targets instead of the O0 targets
PerSymbolTargetsOfO2(o0_vol_by_target, o2_vol_by_target) ==
    SortedNames(DOMAIN o2_vol_by_target \cap DOMAIN o0_vol_by_target)

\* section 1b: sorted(o0_vol_by_target.items())
PerSymbolTargets(o0_vol_by_target, o2_vol_by_target) ==
    SortedNames(DOMAIN o0_vol_by_target)

\* sections 1b and 8: the per-symbol comparison of two levels
PerSymbol(sec, from_text, to_text, to_file, skip) ==
    LET from_targets == extract_volatile_stores_by_target(from_text)
        to_targets == extract_volatile_stores_by_target(to_text)
        order == PerSymbolTargets(from_targets, to_targets)
    IN Emitted([i \in 1..Len(order) |->
          LET target == order[i]
              from_count == from_targets[target]
              to_count == GetCount(to_targets, target)
          IN [emit |-> target \notin skip /\ from_count > to_count,
              f |-> IRFinding(sec, "OPTIMIZED_AWAY_ZEROIZE", "high", to_file, 0,
                              target, from_count, to_count)]])

Section2(o2_text) ==
    LET hits == find_nonvolatile_memsets(o2_text)
    IN [i \in 1..Len(hits) |->
          IRFinding("memset", "OPTIMIZED_AWAY_ZEROIZE", "high", "O2", hits[i], "", 0, 0)]

Section3(o2_text) ==
    LET o2_allocas == extract_allocas(o2_text)
        o2_lifetime_ends == extract_lifetime_ends(o2_text)
        o2_vol_targets == extract_volatile_store_targets(o2_text)
        order == AllocaOrder(o2_text)
    IN Emitted([i \in 1..Len(order) |->
          LET alloca_name == order[i]
              size == o2_allocas[alloca_name]
          IN [emit |-> /\ size \in SECRET_ALLOCA_SIZES
                       /\ alloca_name \in o2_lifetime_ends
                       /\ alloca_name \notin o2_vol_targets,
              f |-> IRFinding("lifetime", "STACK_RETENTION", "high", "O2", 0,
                              alloca_name, size, 0)]])

Section4(o0_text, o2_text) ==
    LET o0_allocas == extract_allocas(o0_text)
        o2_allocas == extract_allocas(o2_text)
        o0_vol_targets == extract_volatile_store_targets(o0_text)
        order == AllocaOrder(o0_text)
    IN Emitted([i \in 1..Len(order) |->
          LET alloca_name == order[i]
              size == o0_allocas[alloca_name]
          IN [emit |-> /\ size \in SECRET_ALLOCA_SIZES
                       /\ alloca_name \notin DOMAIN o2_allocas
                       /\ alloca_name \in o0_vol_targets,
              f |-> IRFinding("sroa", "OPTIMIZED_AWAY_ZEROIZE", "high", "O2", 0,
                              alloca_name, size, 0)]])

Section5(o2_text) ==
    LET hits == find_arg_load_calls(o2_text)
    IN [i \in 1..Len(hits) |->
          IRFinding("argload", "REGISTER_SPILL", "medium", "O2", hits[i],
                    o2_text[hits[i]].arg, 0, 0)]

Section6(o2_text) ==
    LET hits == find_secret_returns(o2_text)
    IN [i \in 1..Len(hits) |->
          IRFinding("ret", "REGISTER_SPILL", "medium", "O2", hits[i],
                    o2_text[hits[i]].sym, 0, 0)]

Section7(o2_text) ==
    LET hits == find_secret_aggregate_passes(o2_text)
    IN [i \in 1..Len(hits) |->
          IRFinding("aggregate", "SECRET_COPY", "medium", "O2", hits[i], "", 0, 0)]

\* reported_by_1b
ReportedBy1b(o0_text, o2_text) ==
    LET o0_vol_by_target == extract_volatile_stores_by_target(o0_text)
        o2_vol_by_target == extract_volatile_stores_by_target(o2_text)
    IN {t \in DOMAIN o0_vol_by_target : o0_vol_by_target[t] > GetCount(o2_vol_by_target, t)}

\* present = [lvl for lvl in level_order if lvl in level_to_ir]
PresentLevels(present) == SelectSeq(<<"O0", "O1", "O2", "O3">>, LAMBDA l : l \in present)

\* section 8 without the check against reported_by_1b
RECURSIVE Section8Unsuppressed(_, _, _, _)
Section8Unsuppressed(present, text, idx, reported_by_1b) ==
    LET order == PresentLevels(present)
    IN IF idx > Len(order) - 1 THEN << >>
       ELSE LET from_level == order[idx]
                to_level == order[idx + 1]
                here == IF from_level = "O0" /\ to_level = "O2" THEN << >>
                        ELSE PerSymbol("multi", text[from_level], text[to_level],
                                       to_level, {})
            IN here \o Section8Unsuppressed(present, text, idx + 1, reported_by_1b)

\* section 8: the adjacent pairs of present levels
RECURSIVE Section8(_, _, _, _)
Section8(present, text, idx, reported_by_1b) ==
    LET order == PresentLevels(present)
    IN IF idx > Len(order) - 1 THEN << >>
       ELSE LET from_level == order[idx]
                to_level == order[idx + 1]
                here == IF from_level = "O0" /\ to_level = "O2" THEN << >>
                        ELSE PerSymbol("multi", text[from_level], text[to_level],
                                       to_level, reported_by_1b)
            IN here \o Section8(present, text, idx + 1, reported_by_1b)

\* the ids make_finding mints: the counter starts at 0 and analyze runs once
WithIds(fs) == [i \in 1..Len(fs) |-> [fs[i] EXCEPT !.id = i]]

analyze(present, text) ==
    IF "O0" \notin present \/ "O2" \notin present THEN << >>
    ELSE LET o0_text == text["O0"]
             o2_text == text["O2"]
         IN WithIds(
              Section1(o0_text, o2_text)
              \o PerSymbol("symbol", o0_text, o2_text, "O2", {})
              \o Section2(o2_text)
              \o Section3(o2_text)
              \o Section4(o0_text, o2_text)
              \o Section5(o2_text)
              \o Section6(o2_text)
              \o Section7(o2_text)
              \o Section8(present, text, 1, ReportedBy1b(o0_text, o2_text)))

\* ---- the inputs ----
MaxIRLines == 2

\* the lines of the model: one line per pattern of the analyzer
IRLineSet ==
    { IRLine("vstore", "key", 0, ""),
      IRLine("vstore", "buf", 0, ""),
      IRLine("vstore", "", 0, ""),
      IRLine("memset", "", 0, ""),
      IRLine("memset", "", 1, ""),
      IRLine("alloca", "key", 32, ""),
      IRLine("lifetime", "key", 32, ""),
      IRLine("ret", "key", 0, ""),
      IRLine("load", "key", 0, "buf"),
      IRLine("call", "use", 0, "key"),
      IRLine("call", "use", 1, "key") }

\* the lines of the texts that differ between the levels
IRDiffLineSet ==
    { IRLine("vstore", "key", 0, ""),
      IRLine("vstore", "buf", 0, ""),
      IRLine("vstore", "", 0, ""),
      IRLine("memset", "", 0, ""),
      IRLine("alloca", "key", 32, ""),
      IRLine("lifetime", "key", 32, ""),
      IRLine("ret", "key", 0, "") }

IRTexts == SeqsUpTo(IRLineSet, MaxIRLines)

IRDiffTexts == SeqsUpTo(IRDiffLineSet, MaxIRLines)

IRTextOf(o0, o2) ==
    [l \in IRLevels |-> IF l = "O0" THEN o0 ELSE IF l = "O2" THEN o2 ELSE << >>]

IRIdle ==
    /\ ir_present = {} /\ ir_text = [l \in IRLevels |-> << >>]
    /\ ir_findings = << >> /\ ir_pc = "idle"

\* main with --o0 and --o2 only: both files read, either the same text twice
\* or two texts
IRStart ==
    /\ ir_present = {"O0", "O2"}
    /\ \/ \E t \in IRTexts : ir_text = IRTextOf(t, t)
       \/ \E o0 \in IRDiffTexts, o2 \in IRDiffTexts : ir_text = IRTextOf(o0, o2)
    /\ ir_findings = << >>
    /\ ir_pc = "read"

\* findings = analyze(level_to_ir); the findings are written to --out
ir_analyze ==
    /\ ir_pc = "read"
    /\ ir_findings' = analyze(ir_present, ir_text)
    /\ ir_pc' = "done"
    /\ UNCHANGED <<ir_present, ir_text>>
    /\ UNCHANGED notIR

IRNext == ir_analyze

\* ---- the inputs with the optional levels: volatile stores only ----
IRMultiLineSet == { IRLine("vstore", "key", 0, ""), IRLine("vstore", "buf", 0, "") }

IRMultiTexts == SeqsUpTo(IRMultiLineSet, MaxIRLines)

\* main with --o0, --o2 and any of --o1, --o3: every file given is read
IRMultiStart ==
    /\ \E optional \in SUBSET {"O1", "O3"} : ir_present = {"O0", "O2"} \cup optional
    /\ ir_text \in [IRLevels -> IRMultiTexts]
    /\ \A l \in IRLevels \ ir_present : ir_text[l] = << >>
    /\ ir_findings = << >>
    /\ ir_pc = "read"

(***************************************************************************)
(* analyze_cfg.py                                                          *)
(*                                                                         *)
(* A source line is the sequence of its tokens; white space between the    *)
(* tokens is not kept, so a line is its own strip().  A node id node_<k>   *)
(* is the number k; node k is cfg_builder.nodes[k + 1].  An edge is a pair *)
(* <<from, to>>, in the order add_edge appended it.                        *)
(***************************************************************************)
L_func == <<"void", "f", "(", "int", "c", ")", "{">>
L_if_open == <<"if", "(", "c", ")", "{">>
L_if == <<"if", "(", "c", ")">>
L_wipe == <<"zeroize", "(", "key", ")", ";">>
L_use == <<"use", "(", "key", ")", ";">>
L_close_else_open == <<"}", "else", "{">>
L_close == <<"}">>
L_else_open == <<"else", "{">>
L_else == <<"else">>
L_return == <<"return", "0", ";">>
L_merge == <<"//", "merge", "point">>
L_true == <<"//", "true", "branch">>
L_false == <<"//", "false", "branch">>

\* main: sensitive_patterns, \b(secret|key|seed|...)\b
SensitiveWords == {"secret", "key", "seed", "priv", "private", "sk",
                   "shared_secret", "nonce", "token", "pwd", "pass"}

\* main: wipe_patterns, \b<callee>\s*\(
WipeCallees == {"explicit_bzero", "memset_s", "OPENSSL_cleanse",
                "sodium_memzero", "zeroize"}

\* line.count(tok)
CountTok(line, tok) == Cardinality({i \in 1..Len(line) : line[i] = tok})

MatchesSensitive(statement) ==
    \E i \in 1..Len(statement) : statement[i] \in SensitiveWords

MatchesWipe(statement) ==
    \E i \in 1..(Len(statement) - 1) :
        statement[i] \in WipeCallees /\ statement[i + 1] = "("

\* create_node: the id of the node it makes
NextNodeId(b) == b.node_counter

\* create_node; line_num 0 is None, statement << >> is None
create_node(b, node_type, line_num, statement) ==
    [b EXCEPT !.node_counter = @ + 1,
              !.nodes = Append(@, [id |-> b.node_counter,
                                   type |-> node_type,
                                   line_num |-> line_num,
                                   statement |-> statement,
                                   has_wipe |-> MatchesWipe(statement),
                                   has_sensitive_var |-> MatchesSensitive(statement)])]

NodeIds(b) == 0..(Len(b.nodes) - 1)

add_edge(b, from_id, to_id) ==
    IF from_id \in NodeIds(b) /\ to_id \in NodeIds(b)
    THEN [b EXCEPT !.edges = Append(@, <<from_id, to_id>>)]
    ELSE b

\* build_from_source, lines 112-119: function end
BuildFunctionEnd(b, line_num) ==
    LET exit_node == NextNodeId(b)
        b1 == create_node(b, "exit", line_num, << >>)
        b2 == add_edge(b1, b.current_node, exit_node)
    IN [b2 EXCEPT !.in_function = FALSE, !.exit_nodes = @ \cup {exit_node}]

\* lines 121-130: return statement
BuildReturn(b, line_num, stripped) ==
    LET return_node == NextNodeId(b)
        b1 == create_node(b, "return", line_num, stripped)
        b2 == add_edge(b1, b.current_node, return_node)
        exit_node == NextNodeId(b2)
        b3 == create_node(b2, "exit", line_num, << >>)
        b4 == add_edge(b3, return_node, exit_node)
    IN [b4 EXCEPT !.exit_nodes = @ \cup {exit_node}, !.current_node = return_node]

\* lines 132-145: if statement
BuildIf(b, line_num, stripped) ==
    LET branch_node == NextNodeId(b)
        b1 == create_node(b, "branch", line_num, stripped)
        b2 == add_edge(b1, b.current_node, branch_node)
        merge_node == NextNodeId(b2)
        b3 == create_node(b2, "statement", line_num, L_merge)
        true_node == NextNodeId(b3)
        b4 == create_node(b3, "statement", line_num, L_true)
        b5 == add_edge(b4, branch_node, true_node)
    IN [b5 EXCEPT !.branch_stack = Append(@, <<branch_node, merge_node>>),
                  !.current_node = true_node]

\* lines 147-157: else statement
BuildElse(b, line_num) ==
    IF b.branch_stack = << >> THEN b
    ELSE LET top == b.branch_stack[Len(b.branch_stack)]
             branch_node == top[1]
             merge_node == top[2]
             false_node == NextNodeId(b)
             b1 == create_node(b, "statement", line_num, L_false)
             b2 == add_edge(b1, branch_node, false_node)
             b3 == add_edge(b2, b.current_node, merge_node)
         IN [b3 EXCEPT !.current_node = false_node]

\* lines 159-164: closing brace that ends a branch
BuildCloseBranch(b) ==
    LET top == b.branch_stack[Len(b.branch_stack)]
        merge_node == top[2]
        b1 == add_edge(b, b.current_node, merge_node)
    IN [b1 EXCEPT !.branch_stack = SubSeq(@, 1, Len(@) - 1),
                  !.current_node = merge_node]

\* lines 166-169: regular statement
BuildStatement(b, line_num, stripped) ==
    LET stmt_node == NextNodeId(b)
        b1 == create_node(b, "statement", line_num, stripped)
        b2 == add_edge(b1, b.current_node, stmt_node)
    IN [b2 EXCEPT !.current_node = stmt_node]

\* build_from_source: one iteration of the loop over the lines
BuildLine(b, line_num, line) ==
    IF line = << >> \/ line[1] \in {"//", "/*"} THEN b
    ELSE IF CountTok(line, "{") > 0 /\ ~b.in_function
    THEN [b EXCEPT !.in_function = TRUE, !.brace_depth = CountTok(line, "{")]
    ELSE IF ~b.in_function THEN b
    ELSE LET b1 == [b EXCEPT !.brace_depth =
                        @ + CountTok(line, "{") - CountTok(line, "}")]
         IN IF b1.brace_depth = 0 THEN BuildFunctionEnd(b1, line_num)
            ELSE IF line[1] = "return" THEN BuildReturn(b1, line_num, line)
            ELSE IF Len(line) >= 2 /\ line[1] = "if" /\ line[2] = "("
                 THEN BuildIf(b1, line_num, line)
            ELSE IF line[1] = "else" THEN BuildElse(b1, line_num)
            ELSE IF line = <<"}">> /\ b1.branch_stack # << >>
                 THEN BuildCloseBranch(b1)
            ELSE BuildStatement(b1, line_num, line)

\* lines 171-175: at least one exit node
BuildEnd(b) ==
    IF b.exit_nodes # {} THEN b
    ELSE LET exit_node == NextNodeId(b)
             b1 == create_node(b, "exit", 0, << >>)
             b2 == add_edge(b1, b.current_node, exit_node)
         IN [b2 EXCEPT !.exit_nodes = @ \cup {exit_node}]

\* node.predecessors, as a set
Predecessors(b, n) ==
    {b.edges[i][1] : i \in {j \in 1..Len(b.edges) : b.edges[j][2] = n}}

\* set.intersection(*sets)
Intersection(sets) == {x \in UNION sets : \A t \in sets : x \in t}

\* compute_dominators: one pass of the loop body over all nodes
DominatorPass(b, dominators) ==
    [n \in NodeIds(b) |->
        IF n = 0 THEN dominators[n]
        ELSE IF Predecessors(b, n) = {} THEN {n}
        ELSE {n} \cup Intersection({dominators[p] : p \in Predecessors(b, n)})]

\* compute_dominators: iterate until nothing changes.  The code updates the
\* sets in place in set order; the sets only shrink, so every order ends in
\* the same (greatest) fixpoint.
RECURSIVE DominatorFixpoint(_, _)
DominatorFixpoint(b, dominators) ==
    LET next == DominatorPass(b, dominators)
    IN IF next = dominators THEN dominators ELSE DominatorFixpoint(b, next)

compute_dominators(b) ==
    DominatorFixpoint(b, [n \in NodeIds(b) |-> IF n = 0 THEN {0} ELSE NodeIds(b)])

\* verify_wipe_dominates_exits; problematic_exits as the set of exit nodes
VerifyWipeDominatesExits(b) ==
    LET dominators == compute_dominators(b)
        wipe_nodes == {n \in NodeIds(b) : b.nodes[n + 1].has_wipe}
        problematic == {e \in b.exit_nodes : dominators[e] \cap wipe_nodes = {}}
    IN [wipe_dominates_all_exits |-> problematic = {},
        wipe_nodes |-> wipe_nodes,
        problematic_exits |-> problematic]

\* ---- the inputs: a function with one if/else, the wipe call in one branch ----
MaxTailStmts == 1

CFGLayouts == {"same_line", "next_line", "braceless"}

CFGPrograms ==
    [layout : CFGLayouts, wipe_in : {"then", "else"}, other : {"use", "return"},
     tail : 0..MaxTailStmts, last : {"fall", "return"}]

OtherBody(p) == IF p.other = "use" THEN <<L_use>> ELSE <<L_return>>

ThenBody(p) == IF p.wipe_in = "then" THEN <<L_wipe>> ELSE OtherBody(p)

ElseBody(p) == IF p.wipe_in = "else" THEN <<L_wipe>> ELSE OtherBody(p)

IfElse(p) ==
    IF p.layout = "same_line"
    THEN <<L_if_open>> \o ThenBody(p) \o <<L_close_else_open>> \o ElseBody(p) \o <<L_close>>
    ELSE IF p.layout = "next_line"
    THEN <<L_if_open>> \o ThenBody(p) \o <<L_close, L_else_open>> \o ElseBody(p) \o <<L_close>>
    ELSE <<L_if>> \o ThenBody(p) \o <<L_else>> \o ElseBody(p)

CFGSource(p) ==
    <<L_func>> \o IfElse(p) \o [i \in 1..p.tail |-> L_use]
        \o (IF p.last = "return" THEN <<L_return>> ELSE << >>) \o <<L_close>>

\* CFGBuilder.__init__
NewBuilder ==
    [nodes |-> << >>, edges |-> << >>, exit_nodes |-> {}, node_counter |-> 0,
     current_node |-> 0, in_function |-> FALSE, brace_depth |-> 0,
     branch_stack |-> << >>]

NoResult ==
    [wipe_dominates_all_exits |-> TRUE, wipe_nodes |-> {}, problematic_exits |-> {}]

CFGIdle ==
    /\ cfg_prog = [layout |-> "", wipe_in |-> "", other |-> "", tail |-> 0, last |-> ""]
    /\ cfg_src = << >> /\ cfg_line = 1
    /\ cfg_builder = NewBuilder /\ cfg_result = NoResult /\ cfg_pc = "idle"

\* build_from_source up to the loop: the lines are read, the entry node made
CFGStart ==
    /\ cfg_prog \in CFGPrograms
    /\ cfg_src = CFGSource(cfg_prog)
    /\ cfg_line = 1
    /\ cfg_builder = create_node(NewBuilder, "entry", 0, << >>)
    /\ cfg_result = NoResult
    /\ cfg_pc = "build"

build_from_source_line ==
    /\ cfg_pc = "build"
    /\ cfg_line <= Len(cfg_src)
    /\ cfg_builder' = BuildLine(cfg_builder, cfg_line, cfg_src[cfg_line])
    /\ cfg_line' = cfg_line + 1
    /\ UNCHANGED <<cfg_prog, cfg_src, cfg_result, cfg_pc>>
    /\ UNCHANGED notCFG

build_from_source_end ==
    /\ cfg_pc = "build"
    /\ cfg_line > Len(cfg_src)
    /\ cfg_builder' = BuildEnd(cfg_builder)
    /\ cfg_pc' = "built"
    /\ UNCHANGED <<cfg_prog, cfg_src, cfg_line, cfg_result>>
    /\ UNCHANGED notCFG

verify_wipe_dominates_exits ==
    /\ cfg_pc = "built"
    /\ cfg_result' = VerifyWipeDominatesExits(cfg_builder)
    /\ cfg_pc' = "done"
    /\ UNCHANGED <<cfg_prog, cfg_src, cfg_line, cfg_builder>>
    /\ UNCHANGED notCFG

CFGNext ==
    \/ build_from_source_line
    \/ build_from_source_end
    \/ verify_wipe_dominates_exits

(***************************************************************************)
(* scripts/check_mir_patterns.py                                           *)
(*                                                                         *)
(* A MIR line is a record [k, name, slot]:                                 *)
(* k = "fn"           fn <name>() -> () {                                  *)
(* k = "debug"        debug <name> => _<slot>;                             *)
(* k = "drop"         drop(_<slot>) -> bb1;                                *)
(* k = "StorageDead"  StorageDead(_<slot>);                                *)
(* k = "return"       return;                                              *)
(* k = "resume"       resume;                                              *)
(* k = "close"        }                                                    *)
(* These lines match no pattern of the detectors for aggregate moves,      *)
(* closure captures, FFI calls, yield and Err paths, and no function of    *)
(* the model is named drop_in_place or _drop_impl: those detectors return  *)
(* no finding here.                                                        *)
(***************************************************************************)
MirLine(k, name, slot) == [k |-> k, name |-> name, slot |-> slot]

\* line.count("{") - line.count("}")
BraceDelta(l) == IF l.k = "fn" THEN 1 ELSE IF l.k = "close" THEN 0 - 1 ELSE 0

\* split_into_functions: the loop from line i on; cur is (current_name,
\* current_lines, current_start)
RECURSIVE SplitFrom(_, _, _, _, _)
SplitFrom(lines, i, cur, depth, functions) ==
    LET flushed == IF cur.lines # << >> THEN Append(functions, cur) ELSE functions
    IN IF i > Len(lines) THEN flushed
       ELSE IF lines[i].k = "fn" /\ depth = 0
       THEN SplitFrom(lines, i + 1,
                      [name |-> lines[i].name, lines |-> <<lines[i]>>, start |-> i],
                      BraceDelta(lines[i]), flushed)
       ELSE SplitFrom(lines, i + 1, [cur EXCEPT !.lines = Append(@, lines[i])],
                      IF depth + BraceDelta(lines[i]) < 0 THEN 0
                      ELSE depth + BraceDelta(lines[i]),
                      functions)

split_into_functions(mir_lines) ==
    SplitFrom(mir_lines, 1, [name |-> "<top>", lines |-> << >>, start |-> 0], 0, << >>)

\* local_names_from_debug_info: the slots in insertion order
DebugSlots(fn_lines) ==
    LET idx == SelectSeq([i \in 1..Len(fn_lines) |-> i],
                   LAMBDA i : /\ fn_lines[i].k = "debug"
                              /\ \A j \in 1..(i - 1) :
                                   ~(fn_lines[j].k = "debug" /\ fn_lines[j].slot = fn_lines[i].slot))
    IN [i \in 1..Len(idx) |-> fn_lines[idx[i]].slot]

\* local_names_from_debug_info: a later debug line of a slot overwrites the name
local_names_from_debug_info(fn_lines) ==
    [slot \in Range(DebugSlots(fn_lines)) |->
        LET last == CHOOSE i \in 1..Len(fn_lines) :
                       /\ fn_lines[i].k = "debug" /\ fn_lines[i].slot = slot
                       /\ \A j \in (i + 1)..Len(fn_lines) :
                            ~(fn_lines[j].k = "debug" /\ fn_lines[j].slot = slot)
        IN fn_lines[last].name]

\* SENSITIVE_LOCAL_RE on the variable names of the model
SENSITIVE_LOCAL_RE(varname) == varname \in {"key", "token"}

\* analyze: sensitive_re, the pattern augmented by \b<name>\b of every
\* sensitive object; extra_names is the list of their names
SensitiveRe(varname, extra_names) ==
    SENSITIVE_LOCAL_RE(varname) \/ (varname # "" /\ varname \in Range(extra_names))

\* debug_map.get(slot, "")
DebugName(debug_map, slot) == IF slot \in DOMAIN debug_map THEN debug_map[slot] ELSE ""

is_sensitive_local(slot, debug_map, extra_names) ==
    SensitiveRe(DebugName(debug_map, slot), extra_names)

\* make_finding without the id
MirFinding(category, severity, line, symbol, slot) ==
    [id |-> 0, category |-> category, severity |-> severity, confidence |-> "likely",
     line |-> line, symbol |-> symbol, slot |-> slot]

\* detect_drop_before_storagedead: dropped - storage_dead
UndeadDropped(fn_lines) ==
    {fn_lines[i].slot : i \in {j \in 1..Len(fn_lines) : fn_lines[j].k = "drop"}}
      \ {fn_lines[i].slot : i \in {j \in 1..Len(fn_lines) : fn_lines[j].k = "StorageDead"}}

\* the orders in which a for loop can walk a set of strings: the order of a
\* Python set of str follows the hashes, which are salted per process
IterationOrders(S) ==
    {o \in [1..Cardinality(S) -> S] : \A i, j \in 1..Cardinality(S) : i # j => o[i] # o[j]}

\* a detector that emits the generic finding as well when the function returns
detect_drop_both_categories(fn, debug_map, extra_names, order) ==
    LET has_return == \E i \in 1..Len(fn.lines) : fn.lines[i].k = "return"
        kept == SelectSeq(order, LAMBDA slot : is_sensitive_local(slot, debug_map, extra_names))
        generic == [i \in 1..Len(kept) |->
                      MirFinding("MISSING_SOURCE_ZEROIZE", "medium", fn.start,
                                 DebugName(debug_map, kept[i]), kept[i])]
        on_return == [i \in 1..Len(kept) |->
                        MirFinding("NOT_ON_ALL_PATHS", "high", fn.start,
                                   DebugName(debug_map, kept[i]), kept[i])]
    IN IF has_return THEN generic \o on_return ELSE generic

\* detect_drop_before_storagedead, the set walked in the given order
detect_drop_before_storagedead(fn, debug_map, extra_names, order) ==
    LET has_return == \E i \in 1..Len(fn.lines) : fn.lines[i].k = "return"
        kept == SelectSeq(order, LAMBDA slot : is_sensitive_local(slot, debug_map, extra_names))
    IN [i \in 1..Len(kept) |->
          IF has_return
          THEN MirFinding("NOT_ON_ALL_PATHS", "high", fn.start,
                          DebugName(debug_map, kept[i]), kept[i])
          ELSE MirFinding("MISSING_SOURCE_ZEROIZE", "medium", fn.start,
                          DebugName(debug_map, kept[i]), kept[i])]

detect_resume_with_live_secrets(fn, debug_map, extra_names) ==
    LET has_resume == \E i \in 1..Len(fn.lines) : fn.lines[i].k = "resume"
        sensitive_locals == SelectSeq(DebugSlots(fn.lines),
                               LAMBDA slot : is_sensitive_local(slot, debug_map, extra_names))
    IN IF has_resume /\ sensitive_locals # << >>
       THEN << MirFinding("MISSING_SOURCE_ZEROIZE", "medium", fn.start,
                          debug_map[sensitive_locals[1]], 0) >>
       ELSE << >>

\* analyze: the loop over the functions from index i on; orders[i] is the
\* order in which detect_drop_before_storagedead walks its set in function i
RECURSIVE MirAnalyzeFrom(_, _, _, _)
MirAnalyzeFrom(functions, i, extra_names, orders) ==
    IF i > Len(functions) THEN << >>
    ELSE LET debug_map == local_names_from_debug_info(functions[i].lines)
         IN detect_drop_before_storagedead(functions[i], debug_map, extra_names, orders[i])
            \o detect_resume_with_live_secrets(functions[i], debug_map, extra_names)
            \o MirAnalyzeFrom(functions, i + 1, extra_names, orders)

\* the ids make_finding mints in one process: 1, 2, ... in emission order
MirWithIds(fs) == [i \in 1..Len(fs) |-> [fs[i] EXCEPT !.id = i]]

\* extra_names = [obj.get("name", "") for obj in sensitive_objects if obj.get("name")]
ExtraNames(sensitive_objects) == SelectSeq(sensitive_objects, LAMBDA n : n # "")

mir_analyze(mir_lines, sensitive_objects, orders) ==
    MirWithIds(MirAnalyzeFrom(split_into_functions(mir_lines), 1,
                              ExtraNames(sensitive_objects), orders))

\* the choices of iteration orders of one run
MirOrders(mir_lines) ==
    LET functions == split_into_functions(mir_lines)
        all == UNION {IterationOrders(UndeadDropped(functions[i].lines)) :
                        i \in 1..Len(functions)}
    IN {o \in [1..Len(functions) -> all] :
          \A i \in 1..Len(functions) :
             o[i] \in IterationOrders(UndeadDropped(functions[i].lines))}

\* ---- the inputs: one function with three named locals ----
MaxMirBody == 3

MirRuns == 2

MirDecls ==
    << MirLine("fn", "f", 0), MirLine("debug", "key", 1),
       MirLine("debug", "token", 2), MirLine("debug", "count", 3) >>

MirBodyLines ==
    { MirLine("drop", "", 1), MirLine("drop", "", 2), MirLine("drop", "", 3),
      MirLine("StorageDead", "", 1), MirLine("return", "", 0), MirLine("resume", "", 0) }

MirTexts ==
    {MirDecls \o body \o <<MirLine("close", "", 0)>> : body \in SeqsUpTo(MirBodyLines, MaxMirBody)}

\* sensitive-objects.json: the names of the objects
MirSecretLists == { << >>, <<"count">> }

MIRIdle ==
    /\ mir_text = << >> /\ mir_secrets = << >> /\ mir_out = << >> /\ mir_pc = "idle"

\* the MIR file and the secrets file are on disk; no run yet
MIRStart ==
    /\ mir_text \in MirTexts
    /\ mir_secrets \in MirSecretLists
    /\ mir_out = << >>
    /\ mir_pc = "ready"

\* one run of main on the same two files: a new process, its own hash salt,
\* its own finding counter
mir_main ==
    /\ mir_pc = "ready"
    /\ Len(mir_out) < MirRuns
    /\ \E orders \in MirOrders(mir_text) :
         mir_out' = Append(mir_out, mir_analyze(mir_text, mir_secrets, orders))
    /\ UNCHANGED <<mir_text, mir_secrets, mir_pc>>
    /\ UNCHANGED notMIR

MIRNext == mir_main

(***************************************************************************)
(* scripts/check_rust_asm.py, scripts/check_rust_asm_x86.py                *)
(*                                                                         *)
(* A symbol name is a record [segs, hash, mangled, dotted].                *)
(* mangled = TRUE: the text is one legacy-mangled token                    *)
(*   _ZN<len><seg>...17h<hash>E; dotted says that the token holds a `.`    *)
(*   (`..` stands for `::` inside `<...>`), as the symbols of trait        *)
(*   implementations do.                                                   *)
(* mangled = FALSE: the text is seg::seg::...  followed by ::h<hash> when  *)
(*   hash # 0.                                                             *)
(* A segment is a record [text, ident, secret]: ident says that the text   *)
(* is made of the characters [A-Za-z0-9_$@.] only, secret that it          *)
(* contains the name of the sensitive type.                                *)
(*                                                                         *)
(* An assembly line is a record [k, name]:                                 *)
(* k = "type"   .type <name>,@function     k = "globl"  .globl <name>      *)
(* k = "label"  <name>:                                                    *)
(* k = "subq"   subq $64, %rsp             k = "zero"   movq $0, 8(%rsp)   *)
(* k = "spill"  movq %rbx, 16(%rsp)        k = "ret"    retq               *)
(***************************************************************************)
Seg(text, ident, secret) == [text |-> text, ident |-> ident, secret |-> secret]

NoName == [segs |-> << >>, hash |-> 0, mangled |-> FALSE, dotted |-> FALSE]

AsmLine(k, name) == [k |-> k, name |-> name]

\* demangle_symbols, rustfilt: every mangled symbol becomes path::h<hash>
Rustfilt(name) ==
    IF name.mangled THEN [name EXCEPT !.mangled = FALSE, !.dotted = FALSE] ELSE name

\* demangle_symbols, fallback: _ZN[A-Za-z0-9_$]+E does not reach over a `.`;
\* _partial drops 17h<hash>E and joins the length-prefixed parts with ::
Partial(name) ==
    IF name.mangled /\ ~name.dotted
    THEN [name EXCEPT !.mangled = FALSE, !.hash = 0]
    ELSE name

demangle_symbols(lines, rustfilt) ==
    [i \in 1..Len(lines) |->
        [lines[i] EXCEPT !.name = IF rustfilt THEN Rustfilt(@) ELSE Partial(@)]]

\* RE_LABEL.match(stripped): the label of a line, NoName when there is no match
RE_LABEL(line) ==
    IF line.k # "label" THEN NoName
    ELSE IF line.name.mangled THEN line.name
    ELSE IF line.name.segs = << >> \/ ~line.name.segs[1].ident THEN NoName
    ELSE [NoName EXCEPT !.segs = <<line.name.segs[1]>>]

\* functions[key] = value on a dict kept as a sequence of [name, lines]
DictPut(d, key, value) ==
    IF \E i \in 1..Len(d) : d[i].name = key
    THEN [i \in 1..Len(d) |-> IF d[i].name = key THEN [d[i] EXCEPT !.lines = value] ELSE d[i]]
    ELSE Append(d, [name |-> key, lines |-> value])

\* parse_functions: func_names
FuncNames(lines) ==
    LET typed == {lines[i].name : i \in {j \in 1..Len(lines) : lines[j].k = "type"}}
        globl == {lines[i].name : i \in {j \in 1..Len(lines) : lines[j].k = "globl"}}
    IN IF typed # {} THEN typed ELSE globl

\* parse_functions: the loop from line lineno on
RECURSIVE ParseFrom(_, _, _, _, _, _)
ParseFrom(lines, lineno, func_names, functions, current, current_lines) ==
    IF lineno > Len(lines)
    THEN IF current # NoName THEN DictPut(functions, current, current_lines) ELSE functions
    ELSE LET label == RE_LABEL(lines[lineno])
         IN IF label # NoName /\ (func_names = {} \/ label \in func_names)
            THEN ParseFrom(lines, lineno + 1, func_names,
                           IF current # NoName
                           THEN DictPut(functions, current, current_lines)
                           ELSE functions,
                           label, << <<lineno, lines[lineno]>> >>)
            ELSE ParseFrom(lines, lineno + 1, func_names, functions, current,
                           IF current # NoName
                           THEN Append(current_lines, <<lineno, lines[lineno]>>)
                           ELSE current_lines)

parse_functions(lines) == ParseFrom(lines, 1, FuncNames(lines), << >>, NoName, << >>)

\* name.lower() in lower: SecretKey is the one name that occurs in a segment,
\* marked by the segment's secret field
NameOccurs(name, func_name) ==
    name = "SecretKey" /\ \E i \in 1..Len(func_name.segs) : func_name.segs[i].secret

\* is_sensitive_function: some sensitive name occurs in the name's text; both
\* branches of the drop_in_place test return the same expression
is_sensitive_function(func_name, sensitive_names) ==
    \E k \in 1..Len(sensitive_names) : NameOccurs(sensitive_names[k], func_name)

\* main, lines 383-384: ::h<16 hex>$ and ::<...> removed
BaseName(func_name) ==
    IF func_name.mangled THEN func_name ELSE [func_name EXCEPT !.hash = 0]

\* evidence_detail texts
NoEv == [what |-> "", line |-> 0, line2 |-> 0]

\* a finding of a backend; detail is the marker the detail text begins with,
\* "" when it begins with none
AsmFinding(category, severity, symbol, ev) ==
    [category |-> category, severity |-> severity, symbol |-> symbol, ev |-> ev,
     detail |-> "", base |-> NoName]

LinesOf(func_lines, k) == SelectSeq(func_lines, LAMBDA l : l[2].k = k)

\* check_rust_asm_x86.check_stack_retention
check_stack_retention(func_name, func_lines) ==
    LET allocs == LinesOf(func_lines, "subq")
        rets == LinesOf(func_lines, "ret")
        has_zero_store == LinesOf(func_lines, "zero") # << >>
    IN IF allocs # << >> /\ rets # << >> /\ ~has_zero_store
       THEN << AsmFinding("STACK_RETENTION", "high", func_name,
                          [what |-> "frame", line |-> allocs[1][1],
                           line2 |-> rets[Len(rets)][1]]) >>
       ELSE << >>

\* check_rust_asm_x86.check_register_spill: the one spilled register of the
\* model is %rbx, callee-saved; reported once, at its first spill
check_register_spill(func_name, func_lines) ==
    LET spills == LinesOf(func_lines, "spill")
    IN IF spills # << >>
       THEN << AsmFinding("REGISTER_SPILL", "high", func_name,
                          [what |-> "spill rbx", line |-> spills[1][1], line2 |-> 0]) >>
       ELSE << >>

\* check_rust_asm_x86.analyze_function; check_red_zone needs a store below
\* %rsp, which no line of the model is
analyze_function(func_name, func_lines) ==
    check_stack_retention(func_name, func_lines)
        \o check_register_spill(func_name, func_lines)

\* main: _dedup_key
dedup_key(finding, base_name) ==
    [category |-> finding.category, base |-> base_name,
     ev |-> IF finding.category = "REGISTER_SPILL" THEN finding.ev ELSE NoEv]

\* instance_counts.get(key, 0)
CountOf(counts, key) == IF key \in DOMAIN counts THEN counts[key] ELSE 0

\* main: _record for each finding of a sequence, in order; st is
\* [raw |-> raw_findings, counts |-> instance_counts]
RECURSIVE RecordAll(_, _, _, _)
RecordAll(st, findings, i, base_name) ==
    IF i > Len(findings) THEN st
    ELSE LET key == dedup_key(findings[i], base_name)
             seen == key \in DOMAIN st.counts
             counts == [k \in DOMAIN st.counts \cup {key} |->
                          IF k = key THEN CountOf(st.counts, key) + 1 ELSE st.counts[k]]
             raw == IF seen THEN st.raw
                    ELSE Append(st.raw, [findings[i] EXCEPT !.base = base_name])
         IN RecordAll([raw |-> raw, counts |-> counts], findings, i + 1, base_name)

\* main, lines 395-415: ids and the instance count in the evidence detail;
\* instances = 0: the detail has no "(seen in N monomorphized instances)"
AsmOutput(raw, counts) ==
    [idx \in 1..Len(raw) |->
        LET count == CountOf(counts, dedup_key(raw[idx], raw[idx].base))
        IN [id |-> idx, category |-> raw[idx].category, severity |-> raw[idx].severity,
            symbol |-> raw[idx].symbol, detail |-> raw[idx].detail, ev |-> raw[idx].ev,
            instances |-> IF count > 1 THEN count ELSE 0]]

\* ---- the inputs: M instances of one generic function ----
MaxInstances == 3

\* example::SecretKey<T>::wipe, an inherent method of a generic type
InherentPath ==
    << Seg("example", TRUE, FALSE), Seg("SecretKey<T>", FALSE, TRUE), Seg("wipe", TRUE, FALSE) >>

\* <example::SecretKey<T> as example::Wipe>::wipe, a trait method
TraitPath ==
    << Seg("<example::SecretKey<T> as example::Wipe>", FALSE, TRUE), Seg("wipe", TRUE, FALSE) >>

\* the symbol of instance h as rustc emits it
Mangled(shape, h) ==
    [segs |-> IF shape = "inherent" THEN InherentPath ELSE TraitPath,
     hash |-> h, mangled |-> TRUE, dotted |-> shape = "trait"]

AsmBodies ==
    { <<"subq", "ret">>, <<"subq", "spill", "ret">>, <<"subq", "zero", "ret">> }

AsmInputs ==
    [m : 2..MaxInstances, shape : {"inherent", "trait"}, body : AsmBodies,
     directive : {"type", "globl", "none"}]

\* the lines of one instance
AsmBlock(in, h) ==
    (IF in.directive = "none" THEN << >>
     ELSE << AsmLine(in.directive, Mangled(in.shape, h)) >>)
    \o << AsmLine("label", Mangled(in.shape, h)) >>
    \o [i \in 1..Len(in.body) |-> AsmLine(in.body[i], NoName)]

RECURSIVE AsmFile(_, _)
AsmFile(in, h) == IF h > in.m THEN << >> ELSE AsmBlock(in, h) \o AsmFile(in, h + 1)

AsmIdle ==
    /\ asm_in = [m |-> 0, shape |-> "", body |-> << >>, directive |-> ""]
    /\ asm_rustfilt = FALSE /\ asm_lines = << >> /\ asm_functions = << >>
    /\ asm_idx = 1 /\ asm_raw = << >> /\ asm_counts = << >>
    /\ asm_output = << >> /\ asm_pc = "idle"

\* main up to line 339: the file is read, the architecture is x86_64 (every
\* body names %rsp); rustfilt is installed or not; the secrets file names
\* the Rust type SecretKey
AsmStart ==
    /\ asm_in \in AsmInputs
    /\ asm_rustfilt \in BOOLEAN
    /\ asm_lines = AsmFile(asm_in, 1)
    /\ asm_functions = << >> /\ asm_idx = 1
    /\ asm_raw = << >> /\ asm_counts = << >>
    /\ asm_output = << >>
    /\ asm_pc = "read"

\* main, lines 341-355: demangle_symbols and parse_functions
asm_parse ==
    /\ asm_pc = "read"
    /\ asm_lines' = demangle_symbols(asm_lines, asm_rustfilt)
    /\ asm_functions' = parse_functions(asm_lines')
    /\ asm_pc' = "functions"
    /\ UNCHANGED <<asm_in, asm_rustfilt, asm_idx, asm_raw, asm_counts, asm_output>>
    /\ UNCHANGED notAsm

\* main, lines 378-393: one iteration of the loop over functions.items();
\* check_drop_glue returns None, no name of the model holds drop_in_place
asm_function ==
    /\ asm_pc = "functions"
    /\ asm_idx <= Len(asm_functions)
    /\ LET func_name == asm_functions[asm_idx].name
           func_lines == asm_functions[asm_idx].lines
           st == IF is_sensitive_function(func_name, << "SecretKey" >>)
                 THEN RecordAll([raw |-> asm_raw, counts |-> asm_counts],
                                analyze_function(func_name, func_lines), 1,
                                BaseName(func_name))
                 ELSE [raw |-> asm_raw, counts |-> asm_counts]
       IN /\ asm_raw' = st.raw
          /\ asm_counts' = st.counts
    /\ asm_idx' = asm_idx + 1
    /\ UNCHANGED <<asm_in, asm_rustfilt, asm_lines, asm_functions, asm_output, asm_pc>>
    /\ UNCHANGED notAsm

\* main, lines 395-420: the output is built and written
asm_write ==
    /\ asm_pc = "functions"
    /\ asm_idx > Len(asm_functions)
    /\ asm_output' = AsmOutput(asm_raw, asm_counts)
    /\ asm_pc' = "done"
    /\ UNCHANGED <<asm_in, asm_rustfilt, asm_lines, asm_functions, asm_idx, asm_raw, asm_counts>>
    /\ UNCHANGED notAsm

AsmNext == asm_parse \/ asm_function \/ asm_write

(***************************************************************************)
(* generate_poc.py: _filter_findings and its call in run                   *)
(*                                                                         *)
(* A finding is a record [id, category, confidence, needs_review,          *)
(* compiler_evidence, evidence_source]; "absent" says that the key is not  *)
(* in the dict.  needs_review is "absent", "true" or "false";              *)
(* compiler_evidence is "absent", "empty" ({}) or "dict" (non-empty);      *)
(* evidence_source is a record [kind, items]: kind "absent", "list" (items *)
(* are the sources) or "str" (the string "cfg", not a list).               *)
(* min_confidence "None" is Python's None.                                 *)
(***************************************************************************)
EXPLOITABLE_CATEGORIES ==
    {"MISSING_SOURCE_ZEROIZE", "OPTIMIZED_AWAY_ZEROIZE", "STACK_RETENTION",
     "REGISTER_SPILL", "SECRET_COPY", "MISSING_ON_ERROR_PATH", "PARTIAL_WIPE",
     "NOT_ON_ALL_PATHS", "INSECURE_HEAP_ALLOC", "LOOP_UNROLLED_INCOMPLETE",
     "NOT_DOMINATING_EXITS"}

DEFAULT_MIN_CONFIDENCE == "likely"

\* _CONFIDENCE_ORDER.get(c, 2)
CONFIDENCE_ORDER(c) ==
    IF c = "confirmed" THEN 0 ELSE IF c = "likely" THEN 1 ELSE 2

\* _filter_findings: the confidence the filter works with
DerivedConf(f) ==
    LET by_flag == IF f.needs_review = "true" THEN "needs_review" ELSE "likely"
        by_compiler == IF f.compiler_evidence = "dict" THEN "confirmed" ELSE by_flag
        \* f.get("evidence_source", []): an absent key is the empty list
        is_list == f.evidence_source.kind \in {"absent", "list"}
    IN IF is_list /\ "cfg" \in Range(f.evidence_source.items) THEN "confirmed" ELSE by_compiler

\* _filter_findings: the body of the loop, TRUE when f is appended
Keeps(f, categories, min_confidence) ==
    IF f.category \notin categories THEN FALSE
    ELSE IF min_confidence = "None" THEN TRUE
    ELSE CONFIDENCE_ORDER(DerivedConf(f)) <= CONFIDENCE_ORDER(min_confidence)

\* ---- the inputs ----
MaxPocFindings == 2

PocCategories == {"STACK_RETENTION", "ANALYSIS_SKIPPED"}

PocConfidence == {"confirmed", "likely", "needs_review", "absent"}

PocEvidenceSources ==
    { [kind |-> "absent", items |-> << >>], [kind |-> "str", items |-> << >>],
      [kind |-> "list", items |-> <<"cfg">>], [kind |-> "list", items |-> <<"ir">>] }

PocShapes ==
    [category : PocCategories, confidence : PocConfidence,
     needs_review : {"absent", "true", "false"},
     compiler_evidence : {"absent", "empty", "dict"},
     evidence_source : PocEvidenceSources]

\* the shapes of the findings after the first one
PocLaterShapes ==
    [category : {"STACK_RETENTION"}, confidence : {"likely", "needs_review"},
     needs_review : {"absent", "true"},
     compiler_evidence : {"absent"},
     evidence_source : {[kind |-> "absent", items |-> << >>]}]

PocFinding(sh, id) ==
    [id |-> id, category |-> sh.category, confidence |-> sh.confidence,
     needs_review |-> sh.needs_review, compiler_evidence |-> sh.compiler_evidence,
     evidence_source |-> sh.evidence_source]

PocReports ==
    UNION {{[i \in 1..n |-> PocFinding(IF i = 1 THEN first ELSE later[i - 1], i)] :
              first \in PocShapes, later \in [1..(n - 1) -> PocLaterShapes]} :
           n \in 1..MaxPocFindings}

\* run: None with no_confidence_filter, else config.get("min_confidence",
\* _DEFAULT_MIN_CONFIDENCE); "high" is a value the order does not know
PocThresholds == {"None", DEFAULT_MIN_CONFIDENCE, "confirmed", "needs_review", "high"}

\* run: selected
PocSelections ==
    {EXPLOITABLE_CATEGORIES, {"STACK_RETENTION"} \cap EXPLOITABLE_CATEGORIES,
     {"SECRET_COPY"} \cap EXPLOITABLE_CATEGORIES}

PocIdle ==
    /\ poc_findings = << >> /\ poc_min_confidence = "None" /\ poc_selected = {}
    /\ poc_idx = 1 /\ poc_result = << >> /\ poc_pc = "idle"

\* run up to the call of _filter_findings
PocStart ==
    /\ poc_findings \in PocReports
    /\ poc_min_confidence \in PocThresholds
    /\ poc_selected \in PocSelections
    /\ poc_idx = 1 /\ poc_result = << >>
    /\ poc_pc = "filter"

\* _filter_findings: one iteration of the loop
filter_finding ==
    /\ poc_pc = "filter"
    /\ poc_idx <= Len(poc_findings)
    /\ poc_result' = IF Keeps(poc_findings[poc_idx], poc_selected, poc_min_confidence)
                     THEN Append(poc_result, poc_findings[poc_idx])
                     ELSE poc_result
    /\ poc_idx' = poc_idx + 1
    /\ UNCHANGED <<poc_findings, poc_min_confidence, poc_selected, poc_pc>>
    /\ UNCHANGED notPoc

\* _filter_findings returns; run stops with exit code 2 when nothing is left
filter_return ==
    /\ poc_pc = "filter"
    /\ poc_idx > Len(poc_findings)
    /\ poc_pc' = IF poc_result = << >> THEN "exit2" ELSE "filtered"
    /\ UNCHANGED <<poc_findings, poc_min_confidence, poc_selected, poc_idx, poc_result>>
    /\ UNCHANGED notPoc

PocNext == filter_finding \/ filter_return

(***************************************************************************)
(* extract_compile_flags.py, and the use generate_poc.py makes of it       *)
(*                                                                         *)
(* A token of a command line is a record [flag, att]: the text of the      *)
(* token is flag followed by att.  flag is the option name (or, for a      *)
(* token that is no option, the whole text); att is what is attached to    *)
(* it: "" (nothing), "=x" (an equals sign and a value) or any other text.  *)
(* No flag of the inputs is a prefix of another one, so the start of a     *)
(* token's text is decided by its flag.                                    *)
(***************************************************************************)
STRIP_WITH_ARG == {"-o", "-MF", "-MT", "-MQ"}

STRIP_STANDALONE ==
    {"-c", "-MD", "-MMD", "-MP", "-MG", "-pipe", "-save-temps", "-gsplit-dwarf"}

STRIP_PREFIXES ==
    {"-fcrash-diagnostics-dir", "-fmodule-file=", "-fmodules-cache-path=",
     "-fpch-preprocess", "--serialize-diagnostics", "-fdebug-prefix-map=",
     "--debug-prefix-map=", "-iprefix", "-iwithprefix", "-iwithprefixbefore",
     "-fprofile-generate", "-fprofile-use=", "-fprofile-instr-generate",
     "-fprofile-instr-use=", "-fcoverage-mapping"}

\* _STRIP_ATTACHED_RE.match(flag): ^(?:-o|-MF|-MT|-MQ)(?:=?.+)$
STRIP_ATTACHED_RE(token) == token.flag \in {"-o", "-MF", "-MT", "-MQ"} /\ token.att # ""

\* token in _STRIP_STANDALONE / token in _STRIP_WITH_ARG: the whole text
InSet(token, flags) == token.flag \in flags /\ token.att = ""

should_strip(token) ==
    \/ InSet(token, STRIP_STANDALONE)
    \/ STRIP_ATTACHED_RE(token)
    \/ token.flag \in STRIP_PREFIXES

\* _extract_flags: the loop from index i on
RECURSIVE ExtractFrom(_, _, _, _)
ExtractFrom(raw_flags, i, skip_next, result) ==
    IF i > Len(raw_flags) THEN result
    ELSE IF skip_next THEN ExtractFrom(raw_flags, i + 1, FALSE, result)
    ELSE IF InSet(raw_flags[i], STRIP_WITH_ARG)
         THEN ExtractFrom(raw_flags, i + 1, TRUE, result)
    ELSE IF should_strip(raw_flags[i])
         THEN ExtractFrom(raw_flags, i + 1, FALSE, result)
    ELSE ExtractFrom(raw_flags, i + 1, FALSE, Append(result, raw_flags[i]))

\* a filter that puts every kept token in front of the result
RECURSIVE ExtractFromPrepend(_, _, _, _)
ExtractFromPrepend(raw_flags, i, skip_next, result) ==
    IF i > Len(raw_flags) THEN result
    ELSE IF skip_next THEN ExtractFromPrepend(raw_flags, i + 1, FALSE, result)
    ELSE IF InSet(raw_flags[i], STRIP_WITH_ARG)
         THEN ExtractFromPrepend(raw_flags, i + 1, TRUE, result)
    ELSE IF should_strip(raw_flags[i])
         THEN ExtractFromPrepend(raw_flags, i + 1, FALSE, result)
    ELSE ExtractFromPrepend(raw_flags, i + 1, FALSE, <<raw_flags[i]>> \o result)

extract_flags_prepend(raw_flags) == ExtractFromPrepend(raw_flags, 1, FALSE, << >>)

extract_flags(raw_flags) == ExtractFrom(raw_flags, 1, FALSE, << >>)

\* Path(token).name for the tokens of the inputs
PathName(token) ==
    IF token.flag = "src/crypto.c" /\ token.att = "" THEN "crypto.c" ELSE token.flag

\* get_raw_flags: the arguments without the compiler and without the source
\* file; src_file is the entry's "file"
get_raw_flags(arguments, src_file) ==
    IF arguments = << >> THEN << >>
    ELSE SelectSeq(Tail(arguments),
                   LAMBDA token : ~(token = src_file \/ PathName(token) = PathName(src_file)))

\* generate_poc.py, _flags_str: re.match(r"^-O[0-3sg]$", f)
IsSetOptLevel(token) ==
    token.flag = "-O" /\ token.att \in {"0", "1", "2", "3", "s", "g"}

\* _flags_str: the flags that are joined into the rule; the JSON text that
\* carries the list between the two scripts holds the same strings
flags_str(flags) == SelectSeq(flags, LAMBDA token : ~IsSetOptLevel(token))

\* makefile_target: "<binary>: <filename> poc_common.h\n\t<compiler>
\* <opt_level> <flags> -o $@ $<\n", as its parts
makefile_target(binary, filename, compiler, opt_level, flags) ==
    [binary |-> binary, filename |-> filename, compiler |-> compiler,
     opt_level |-> opt_level, flags |-> flags_str(flags)]

\* ---- the inputs ----
MaxFlags == 3

Tok(flag, att) == [flag |-> flag, att |-> att]

SrcFile == Tok("src/crypto.c", "")

FlagTokens ==
    {Tok("-o", ""), Tok("-o", "=x"), Tok("-o", "x"),
     Tok("-MF", ""), Tok("-MF", "=x"), Tok("-MT", ""),
     Tok("-MD", ""), Tok("-MD", "=x"),
     Tok("-pipe", ""), Tok("-fprofile-use=", "x"),
     Tok("-O", "2"), Tok("-O", "s"), Tok("-O", "z"), Tok("-O", "fast"), Tok("-O", ""),
     Tok("-Wall", ""), Tok("out.o", "")}

\* the entry's arguments: the compiler, the flags, the source file
FlagArguments ==
    {<<Tok("cc", "")>> \o L \o <<SrcFile>> : L \in SeqsUpTo(FlagTokens, MaxFlags)}

FlagsIdle ==
    /\ fl_arguments = << >> /\ fl_raw = << >> /\ fl_flags = << >>
    /\ fl_rule = << >> /\ fl_pc = "idle"

FlagsStart ==
    /\ fl_arguments \in FlagArguments
    /\ fl_raw = << >> /\ fl_flags = << >> /\ fl_rule = << >>
    /\ fl_pc = "extract"

\* extract_compile_flags.py main: the entry is found, its flags are printed
extract_main ==
    /\ fl_pc = "extract"
    /\ fl_raw' = get_raw_flags(fl_arguments, SrcFile)
    /\ fl_flags' = extract_flags(get_raw_flags(fl_arguments, SrcFile))
    /\ fl_pc' = "extracted"
    /\ UNCHANGED <<fl_arguments, fl_rule>>
    /\ UNCHANGED notFlags

\* generate_poc.py: PoCGenerator.makefile_target for a STACK_RETENTION finding
\* of the source file; fl_rule is the flags part of the rule
flags_makefile_target ==
    /\ fl_pc = "extracted"
    /\ fl_rule' = makefile_target("poc", "poc.c", "$(CC)", "-O2", fl_flags).flags
    /\ fl_pc' = "done"
    /\ UNCHANGED <<fl_arguments, fl_raw, fl_flags>>
    /\ UNCHANGED notFlags

FlagsNext == extract_main \/ flags_makefile_target

(***************************************************************************)
(* generate_poc.py: run, from the filter to the manifest                   *)
(*                                                                         *)
(* A finding is the record of the filter above with                        *)
(*   id    [kind, text]: kind "absent" (no id key) or "str"; text is the   *)
(*         id as a sequence of characters                                  *)
(*   file  the source path                                                 *)
(* A file name poc_<safe_id>_<category in lower case><ext> is the record   *)
(* [safe_id, category, ext]; no category is the end of another one, so     *)
(* two records are equal exactly when the two names are.  Path(name).stem  *)
(* is the record [safe_id, category].                                      *)
(* gen_files is the set of PoC sources in the output directory (a second   *)
(* open(..., "w") of a name replaces the file); poc_common.h, the Makefile *)
(* and poc_manifest.json are written besides.                              *)
(***************************************************************************)
\* the characters of the inputs that [a-zA-Z0-9_-] matches
SafeChars == {"k", "1", "2", "u", "n", "o", "w", "_", "-"}

\* finding.get("id", "unknown")
finding_id(finding) ==
    IF finding.id.kind = "absent" THEN <<"u", "n", "k", "n", "o", "w", "n">>
    ELSE finding.id.text

\* re.sub(r"[^a-zA-Z0-9_-]", "_", self.finding_id)
safe_id(id) == [i \in 1..Len(id) |-> IF id[i] \in SafeChars THEN id[i] ELSE "_"]

\* Path(src_file).suffix.lower() of the paths of the inputs
SuffixLower(src_file) ==
    IF src_file \in {"src/crypto.cpp", "src/crypto.CPP"} THEN ".cpp" ELSE ".c"

is_cpp_file(src_file) ==
    SuffixLower(src_file) \in {".cpp", ".cxx", ".cc", ".C", ".hpp", ".hxx"}

poc_filename(finding) ==
    [safe_id |-> safe_id(finding_id(finding)), category |-> finding.category,
     ext |-> IF is_cpp_file(finding.file) THEN ".cpp" ELSE ".c"]

\* Path(filename).stem: safe_id and category hold no dot
Stem(filename) == [safe_id |-> filename.safe_id, category |-> filename.category]

compiler_var(src_file) == IF is_cpp_file(src_file) THEN "$(CXX)" ELSE "$(CC)"

\* the keys of _GENERATORS
GENERATORS == EXPLOITABLE_CATEGORIES

\* opt_level of the generator classes (OptimizedAwayZeroizePoC: the level
\* without a diff_summary)
OptLevel(category) ==
    IF category \in {"STACK_RETENTION", "REGISTER_SPILL", "LOOP_UNROLLED_INCOMPLETE",
                     "OPTIMIZED_AWAY_ZEROIZE"}
    THEN "-O2" ELSE "-O0"

\* the compilation database of the runs: one entry, for src/crypto.c
GenDbArguments ==
    <<Tok("cc", ""), Tok("-Wall", ""), Tok("-O", "2"), Tok("-c", ""), SrcFile,
      Tok("-o", ""), Tok("out.o", "")>>

\* _get_compile_flags: the flags of the entry, None (here the empty list,
\* which _flags_str joins to the same "") when the extractor exits with 2
get_compile_flags(src_file) ==
    IF src_file = SrcFile.flag
    THEN extract_flags(get_raw_flags(GenDbArguments, SrcFile))
    ELSE << >>

\* manifest_entry
manifest_entry(finding, filename) ==
    [finding_id |-> finding_id(finding), category |-> finding.category,
     file |-> filename, makefile_target |-> Stem(filename),
     compile_opt |-> OptLevel(finding.category)]

\* ---- the inputs ----
MaxGenFindings == 2

GenIds ==
    { [kind |-> "absent", text |-> << >>],
      [kind |-> "str", text |-> <<"k", "1">>],
      [kind |-> "str", text |-> <<"k", "2">>],
      [kind |-> "str", text |-> <<"k", "/", "1">>],
      [kind |-> "str", text |-> <<"k", ".", "1">>] }

GenShapes ==
    [id : GenIds, category : {"STACK_RETENTION", "SECRET_COPY", "ANALYSIS_SKIPPED"},
     file : {"src/crypto.c", "src/crypto.cpp"},
     needs_review : {"absent", "true"},
     compiler_evidence : {"absent"},
     evidence_source : {[kind |-> "absent", items |-> << >>]}]

GenReports == UNION {[1..n -> GenShapes] : n \in 1..MaxGenFindings}

NoManifest == [pocs_generated |-> 0, entries |-> << >>]

GenIdle ==
    /\ gen_findings = << >> /\ gen_min_confidence = "None" /\ gen_exploitable = << >>
    /\ gen_idx = 1 /\ gen_files = {} /\ gen_targets = << >> /\ gen_entries = << >>
    /\ gen_count = 0 /\ gen_manifest = NoManifest /\ gen_pc = "idle"

\* run: the findings are loaded, the config is read
GenStart ==
    /\ gen_findings \in GenReports
    /\ gen_min_confidence \in {"None", DEFAULT_MIN_CONFIDENCE}
    /\ gen_exploitable = << >>
    /\ gen_idx = 1 /\ gen_files = {} /\ gen_targets = << >> /\ gen_entries = << >>
    /\ gen_count = 0 /\ gen_manifest = NoManifest /\ gen_pc = "filter"

\* run: _filter_findings over all exploitable categories; exit code 2 when
\* nothing is left, else the directory and poc_common.h are made
run_filter ==
    /\ gen_pc = "filter"
    /\ gen_exploitable' =
         SelectSeq(gen_findings,
                   LAMBDA f : Keeps(f, EXPLOITABLE_CATEGORIES, gen_min_confidence))
    /\ gen_pc' = IF gen_exploitable' = << >> THEN "exit2" ELSE "generate"
    /\ UNCHANGED <<gen_findings, gen_min_confidence, gen_idx, gen_files, gen_targets,
                   gen_entries, gen_count, gen_manifest>>
    /\ UNCHANGED notGen

\* run: one iteration of `for finding in exploitable`
run_generate ==
    /\ gen_pc = "generate"
    /\ gen_idx <= Len(gen_exploitable)
    /\ LET finding == gen_exploitable[gen_idx]
           filename == poc_filename(finding)
       IN IF finding.category \notin GENERATORS
          THEN UNCHANGED <<gen_files, gen_targets, gen_entries, gen_count>>
          ELSE /\ gen_files' = gen_files \cup {filename}
               /\ gen_targets' =
                    Append(gen_targets,
                           [binary |-> Stem(filename),
                            rule |-> makefile_target(Stem(filename), filename,
                                                     compiler_var(finding.file),
                                                     OptLevel(finding.category),
                                                     get_compile_flags(finding.file))])
               /\ gen_entries' = Append(gen_entries, manifest_entry(finding, filename))
               /\ gen_count' = gen_count + 1
    /\ gen_idx' = gen_idx + 1
    /\ UNCHANGED <<gen_findings, gen_min_confidence, gen_exploitable, gen_manifest, gen_pc>>
    /\ UNCHANGED notGen

\* run: the Makefile (one rule per collected target) and the manifest are
\* written, run returns 0
run_write ==
    /\ gen_pc = "generate"
    /\ gen_idx > Len(gen_exploitable)
    /\ gen_manifest' = [pocs_generated |-> gen_count, entries |-> gen_entries]
    /\ gen_pc' = "exit0"
    /\ UNCHANGED <<gen_findings, gen_min_confidence, gen_exploitable, gen_idx,
                   gen_files, gen_targets, gen_entries, gen_count>>
    /\ UNCHANGED notGen

GenNext == run_filter \/ run_generate \/ run_write

(***************************************************************************)
(* scripts/find_dangerous_apis.py: scan_file_patterns                      *)
(*                                                                         *)
(* A source line is the sequence of its tokens; white space is not kept,   *)
(* so a line is its own strip().  The tokens:                              *)
(*   "mem::forget("  "Box::leak("   text that a dangerous-API pattern      *)
(*                                  matches                                *)
(*   "key"                          a sensitive name                       *)
(*   "x"                            other code or comment text             *)
(*   "//"  "/*"  "*/"               the comment markers                    *)
(* A finding is a record [id, category, severity, confidence, line,        *)
(* pattern]; pattern is the index of the pattern that matched.             *)
(***************************************************************************)
\* the first and the third entry of PATTERNS: token, category, severity
SCAN_PATTERNS ==
    << [token |-> "mem::forget(", category |-> "MISSING_SOURCE_ZEROIZE",
        severity |-> "critical"],
       [token |-> "Box::leak(", category |-> "MISSING_SOURCE_ZEROIZE",
        severity |-> "critical"] >>

\* SENSITIVE_NAME_RE.search(line)
HasSensitiveName(line) == "key" \in Range(line)

\* the default of has_sensitive_context's parameter window
SCAN_WINDOW == 15

Max(a, b) == IF a >= b THEN a ELSE b

Min(a, b) == IF a <= b THEN a ELSE b

\* a window check that takes the 1-based line number for the array index
has_sensitive_context_1based(lines, center_idx, window) ==
    LET start == Max(0, center_idx + 1 - window)
        end == Min(Len(lines), center_idx + 1 + window + 1)
    IN \E j \in (start + 1)..end : HasSensitiveName(lines[j])

\* has_sensitive_context: lines[start:end] of the 0-based list are the lines
\* start+1 .. end here; a name cannot span the "\n" of the join
has_sensitive_context(lines, center_idx, window) ==
    LET start == Max(0, center_idx - window)
        end == Min(Len(lines), center_idx + window + 1)
    IN \E j \in (start + 1)..end : HasSensitiveName(lines[j])

\* _is_commented_out: <<skip_this_line, updated_in_block_comment>>
is_commented_out(line, in_block_comment) ==
    LET has_end == "*/" \in Range(line)
        has_start == "/*" \in Range(line)
    IN IF in_block_comment THEN (IF has_end THEN <<TRUE, FALSE>> ELSE <<TRUE, TRUE>>)
       ELSE IF line # << >> /\ line[1] = "//" THEN <<TRUE, FALSE>>
       ELSE IF line # << >> /\ line[1] = "/*"
            THEN (IF has_end THEN <<TRUE, FALSE>> ELSE <<TRUE, TRUE>>)
       ELSE IF has_start /\ ~has_end THEN <<FALSE, TRUE>>
       ELSE <<FALSE, FALSE>>

\* make_finding: the id number is the module's finding counter
make_finding(counter, pattern, lineno, confidence) ==
    [id |-> counter, category |-> SCAN_PATTERNS[pattern].category,
     severity |-> SCAN_PATTERNS[pattern].severity, confidence |-> confidence,
     line |-> lineno, pattern |-> pattern]

\* ---- the inputs ----
\* files that show the comment forms: up to MaxCommentLines lines
MaxCommentLines == 3

ScanCommentLineSet ==
    { <<"mem::forget(">>,
      <<"x">>,
      <<"Box::leak(", "key">>,
      <<"//", "mem::forget(">>,
      <<"x", "//", "mem::forget(">>,
      <<"/*", "mem::forget(", "*/">>,
      <<"x", "/*", "mem::forget(", "*/">>,
      <<"/*", "x", "*/", "mem::forget(">>,
      <<"/*", "x">>,
      <<"x", "/*", "x">>,
      <<"x", "*/">>,
      <<"*/", "mem::forget(">> }

ScanCommentFiles == UNION {[1..n -> ScanCommentLineSet] : n \in 1..MaxCommentLines}

\* files that show the window: n lines of other code, a call on line c and,
\* when k > 0, a sensitive name on line k
MaxWindowLines == 33

ScanWindowFile(n, c, k) ==
    [i \in 1..n |-> IF i = c /\ i = k THEN <<"mem::forget(", "key">>
                    ELSE IF i = c THEN <<"mem::forget(">>
                    ELSE IF i = k THEN <<"key">>
                    ELSE <<"x">>]

ScanWindowFiles ==
    {ScanWindowFile(n, c, k) : n \in {17, MaxWindowLines}, c \in {1, 17, MaxWindowLines},
                               k \in {0, 1, 2, 16, 17, 18, 32, 33}}

ScanIdle ==
    /\ scan_lines = << >> /\ scan_pattern = 1 /\ scan_lineno = 1
    /\ scan_in_block_comment = FALSE /\ scan_findings = << >> /\ scan_pc = "idle"

\* scan_file_patterns is entered with the lines of one file
ScanStart ==
    /\ scan_lines \in ScanCommentFiles \cup ScanWindowFiles
    /\ scan_pattern = 1 /\ scan_lineno = 1
    /\ scan_in_block_comment = FALSE /\ scan_findings = << >> /\ scan_pc = "scan"

\* scan_file_patterns: one iteration of `for lineno, line in enumerate(lines)`
scan_line ==
    /\ scan_pc = "scan"
    /\ scan_pattern <= Len(SCAN_PATTERNS)
    /\ scan_lineno <= Len(scan_lines)
    /\ LET line == scan_lines[scan_lineno]
           r == is_commented_out(line, scan_in_block_comment)
           confidence == IF has_sensitive_context(scan_lines, scan_lineno - 1, SCAN_WINDOW)
                         THEN "likely" ELSE "needs_review"
       IN /\ scan_in_block_comment' = r[2]
          /\ scan_findings' =
               IF ~r[1] /\ SCAN_PATTERNS[scan_pattern].token \in Range(line)
               THEN Append(scan_findings,
                           make_finding(Len(scan_findings) + 1, scan_pattern,
                                        scan_lineno, confidence))
               ELSE scan_findings
    /\ scan_lineno' = scan_lineno + 1
    /\ UNCHANGED <<scan_lines, scan_pattern, scan_pc>>
    /\ UNCHANGED notScan

\* scan_file_patterns: the pass of one pattern is over, the next one starts
\* with in_block_comment reset
scan_next_pattern ==
    /\ scan_pc = "scan"
    /\ scan_pattern <= Len(SCAN_PATTERNS)
    /\ scan_lineno > Len(scan_lines)
    /\ scan_pattern' = scan_pattern + 1
    /\ scan_lineno' = 1
    /\ scan_in_block_comment' = FALSE
    /\ UNCHANGED <<scan_lines, scan_findings, scan_pc>>
    /\ UNCHANGED notScan

\* scan_file_patterns returns its findings
scan_return ==
    /\ scan_pc = "scan"
    /\ scan_pattern > Len(SCAN_PATTERNS)
    /\ scan_pc' = "done"
    /\ UNCHANGED <<scan_lines, scan_pattern, scan_lineno, scan_in_block_comment,
                   scan_findings>>
    /\ UNCHANGED notScan

ScanNext == scan_line \/ scan_next_pattern \/ scan_return

(***************************************************************************)
(* scripts/check_rust_asm_x86.py on the lines of one function              *)
(*                                                                         *)
(* A line is a record [code, comment]: the instruction before the first    *)
(* `#` and the text after it ("" when the line has no `#`).  Both are      *)
(* named by the instruction they spell:                                    *)
(*   "subq64"        subq $64, %rsp       "subq0"  subq $0, %rsp           *)
(*   "movq0"         movq $0, 8(%rsp)     "retq"   retq                    *)
(*   "xorps_self"    xorps %xmm0, %xmm0                                    *)
(*   "call_memset"   call memset@PLT                                       *)
(*   "spill_rbx"     movq %rbx, 16(%rsp)                                   *)
(*   "movl_redzone"  movl %eax, -8(%rsp)                                   *)
(*   "nop"           nop                                                   *)
(* func_lines[i] is the line with the number i.                            *)
(***************************************************************************)
\* RE_FRAME_ALLOC.search: the N of subq $N, %rsp; -1 without a match
RE_FRAME_ALLOC(text) == IF text = "subq64" THEN 64 ELSE IF text = "subq0" THEN 0 ELSE -1

\* RE_MOV[QLWB]_ZERO, RE_MEMSET_CALL, RE_SIMD_ZERO with equal registers
X86ZeroStore(text) == text \in {"movq0", "call_memset", "xorps_self"}

\* RE_RET.search
RE_RET(text) == text = "retq"

\* RE_REG_SPILL.search: the register, "" without a match
RE_REG_SPILL(text) == IF text = "spill_rbx" THEN "rbx" ELSE ""

\* RE_RED_ZONE.search: the offset, 0 without a match
RE_RED_ZONE(text) == IF text = "movl_redzone" THEN 8 ELSE 0

\* line.split("#", 1)[0]
X86Code(line) == line.code

\* a search in the whole line finds the leftmost match: in the code, else in
\* the comment
X86SpillReg(line) ==
    IF RE_REG_SPILL(line.code) # "" THEN RE_REG_SPILL(line.code)
    ELSE RE_REG_SPILL(line.comment)

X86Finding(category, severity, what, line, line2) ==
    [category |-> category, severity |-> severity, what |-> what,
     line |-> line, line2 |-> line2]

X86Indices(func_lines, P(_)) == SelectSeq([i \in 1..Len(func_lines) |-> i], P)

\* check_stack_retention
x86_check_stack_retention(func_lines) ==
    LET allocs == X86Indices(func_lines,
                      LAMBDA i : RE_FRAME_ALLOC(X86Code(func_lines[i])) >= 0)
        rets == X86Indices(func_lines, LAMBDA i : RE_RET(X86Code(func_lines[i])))
        has_zero_store == \E i \in 1..Len(func_lines) : X86ZeroStore(X86Code(func_lines[i]))
        frame_size == IF allocs = << >> THEN 0
                      ELSE RE_FRAME_ALLOC(X86Code(func_lines[allocs[1]]))
    IN IF allocs # << >> /\ rets # << >> /\ ~has_zero_store /\ frame_size > 0
       THEN << X86Finding("STACK_RETENTION", "high", "frame", allocs[1], rets[Len(rets)]) >>
       ELSE << >>

\* check_register_spill: the patterns are applied to the line as it is; rbx
\* is callee-saved; a register is reported once, at its first spill
x86_check_register_spill(func_lines) ==
    LET spills == X86Indices(func_lines, LAMBDA i : X86SpillReg(func_lines[i]) = "rbx")
    IN IF spills # << >>
       THEN << X86Finding("REGISTER_SPILL", "high", "spill rbx", spills[1], 0) >>
       ELSE << >>

\* check_red_zone: the leaf test reads the line as it is, the loop its code
x86_check_red_zone(func_lines) ==
    LET has_frame == \E i \in 1..Len(func_lines) :
                        \/ RE_FRAME_ALLOC(func_lines[i].code) >= 0
                        \/ RE_FRAME_ALLOC(func_lines[i].comment) >= 0
        depths == {RE_RED_ZONE(X86Code(func_lines[i])) : i \in 1..Len(func_lines)}
        red_zone_depth == CHOOSE d \in depths \cup {0} : \A e \in depths : e <= d
        has_zero_store == \E i \in 1..Len(func_lines) : X86ZeroStore(X86Code(func_lines[i]))
        has_ret == \E i \in 1..Len(func_lines) : RE_RET(X86Code(func_lines[i]))
    IN IF has_frame THEN << >>
       ELSE IF red_zone_depth > 0 /\ has_ret /\ ~has_zero_store
       THEN << X86Finding("STACK_RETENTION", "high", "red zone", red_zone_depth, 0) >>
       ELSE << >>

\* analyze_function
x86_analyze_function(func_lines) ==
    x86_check_stack_retention(func_lines)
        \o x86_check_register_spill(func_lines)
        \o x86_check_red_zone(func_lines)

\* ---- the inputs ----
MaxX86Lines == 3

X86L(code, comment) == [code |-> code, comment |-> comment]

X86LineSet ==
    { X86L("subq64", ""), X86L("subq0", ""), X86L("movq0", ""),
      X86L("xorps_self", ""), X86L("call_memset", ""), X86L("retq", ""),
      X86L("spill_rbx", ""), X86L("movl_redzone", ""),
      X86L("nop", "retq"), X86L("nop", "movq0"),
      X86L("nop", "spill_rbx"), X86L("nop", "subq64") }

X86Bodies == UNION {[1..n -> X86LineSet] : n \in 1..MaxX86Lines}

X86Idle == x86_lines = << >> /\ x86_findings = << >> /\ x86_pc = "idle"

\* analyze_function is called with the lines of a sensitive function
X86Start == x86_lines \in X86Bodies /\ x86_findings = << >> /\ x86_pc = "stack"

x86_stack_retention ==
    /\ x86_pc = "stack"
    /\ x86_findings' = x86_findings \o x86_check_stack_retention(x86_lines)
    /\ x86_pc' = "spill"
    /\ UNCHANGED x86_lines
    /\ UNCHANGED notX86

x86_register_spill ==
    /\ x86_pc = "spill"
    /\ x86_findings' = x86_findings \o x86_check_register_spill(x86_lines)
    /\ x86_pc' = "redzone"
    /\ UNCHANGED x86_lines
    /\ UNCHANGED notX86

x86_red_zone ==
    /\ x86_pc = "redzone"
    /\ x86_findings' = x86_findings \o x86_check_red_zone(x86_lines)
    /\ x86_pc' = "done"
    /\ UNCHANGED x86_lines
    /\ UNCHANGED notX86

X86Next == x86_stack_retention \/ x86_register_spill \/ x86_red_zone

(***************************************************************************)
(* scripts/check_rust_asm.py: main with its outcomes, and                  *)
(* scripts/check_rust_asm_aarch64.py                                       *)
(*                                                                         *)
(* Further assembly lines [k, name]:                                       *)
(* k = "stp_fp"      stp x29, x30, [sp, #-32]!                             *)
(* k = "str_x19"     str x19, [sp, #16]                                    *)
(* k = "str_xzr"     str xzr, [sp, #8]                                     *)
(* k = "bl_zeroize"  bl zeroize                                            *)
(* k = "a64ret"      ret                                                   *)
(* k = "nop"         nop                                                   *)
(* The assembly file is a record [status, lines]: status "missing" (no     *)
(* such path), "unreadable" (read_text raises OSError) or "ok".  The        *)
(* secrets file is a record [status, objects]: status "absent", "corrupt"  *)
(* (no JSON), "unreadable" (open raises an OSError other than               *)
(* FileNotFoundError), "strings" (a JSON array of strings) or "ok" (a JSON *)
(* array of objects [language, name]).                                     *)
(***************************************************************************)
\* detect_architecture
detect_architecture(lines) ==
    IF \E i \in 1..Len(lines) : lines[i].k \in {"subq", "zero", "spill"} THEN "x86_64"
    ELSE IF \E i \in 1..Len(lines) : lines[i].k \in {"stp_fp", "str_xzr"} THEN "aarch64"
    ELSE IF \E i \in 1..Len(lines) : lines[i].k = "str_x19" THEN "aarch64"
    ELSE "unknown"

\* load_secrets: kind "list" (the names), "none" (None) or "raise" (an
\* exception no except clause of load_secrets or main catches)
load_secrets(secrets) ==
    CASE secrets.status = "absent" -> [kind |-> "list", names |-> << >>]
      [] secrets.status = "corrupt" -> [kind |-> "none", names |-> << >>]
      [] secrets.status \in {"unreadable", "strings"} -> [kind |-> "raise", names |-> << >>]
      [] OTHER ->
            LET rust == SelectSeq(secrets.objects, LAMBDA obj : obj.language = "rust")
                names == [i \in 1..Len(rust) |-> rust[i].name]
            IN [kind |-> "list", names |-> SelectSeq(names, LAMBDA n : n # "")]

\* "drop_in_place" in func_name.lower()
IsDropGlue(func_name) ==
    \E i \in 1..Len(func_name.segs) : func_name.segs[i].text \in
        {"drop_in_place<example::SecretKey>", "drop_in_place<example::Buffer>"}

\* check_drop_glue
check_drop_glue(func_name, func_lines) ==
    IF ~IsDropGlue(func_name) THEN << >>
    ELSE IF LinesOf(func_lines, "bl_zeroize") # << >> THEN << >>
    ELSE << AsmFinding("MISSING_SOURCE_ZEROIZE", "medium", func_name,
                       [what |-> "drop glue", line |-> Len(func_lines), line2 |-> 0]) >>

\* a finding of the AArch64 backend: its detail begins with [EXPERIMENTAL]
A64Finding(category, severity, symbol, ev) ==
    [AsmFinding(category, severity, symbol, ev) EXCEPT !.detail = "[EXPERIMENTAL]"]

\* check_rust_asm_aarch64.check_stack_retention; the one frame allocation
\* of the model has size 32
a64_check_stack_retention(func_name, func_lines) ==
    LET allocs == LinesOf(func_lines, "stp_fp")
        rets == LinesOf(func_lines, "a64ret")
        has_zero_store ==
            LinesOf(func_lines, "str_xzr") # << >> \/ LinesOf(func_lines, "bl_zeroize") # << >>
    IN IF allocs # << >> /\ rets # << >> /\ ~has_zero_store
       THEN << A64Finding("STACK_RETENTION", "high", func_name,
                          [what |-> "frame", line |-> allocs[1][1],
                           line2 |-> rets[Len(rets)][1]]) >>
       ELSE << >>

\* check_rust_asm_aarch64.check_register_spill: the spilled registers, in
\* the order of spills; stp_fp spills x29 and x30, str_x19 spills x19
RECURSIVE A64Spills(_, _)
A64Spills(func_lines, i) ==
    IF i > Len(func_lines) THEN << >>
    ELSE (CASE func_lines[i][2].k = "str_x19" ->
                   << [reg |-> "x19", line |-> func_lines[i][1], text |-> "str_x19"] >>
            [] func_lines[i][2].k = "stp_fp" ->
                   << [reg |-> "x29", line |-> func_lines[i][1], text |-> "stp_fp"],
                      [reg |-> "x30", line |-> func_lines[i][1], text |-> "stp_fp"] >>
            [] OTHER -> << >>)
         \o A64Spills(func_lines, i + 1)

\* the findings loop: each register once, at its first spill; x19, x29 and
\* x30 are callee-saved; evidence_detail is the line's text and number
a64_check_register_spill(func_name, func_lines) ==
    LET spills == A64Spills(func_lines, 1)
        first == SelectSeq([i \in 1..Len(spills) |->
                               [s |-> spills[i],
                                seen |-> \E j \in 1..(i - 1) : spills[j].reg = spills[i].reg]],
                           LAMBDA e : ~e.seen)
    IN [i \in 1..Len(first) |->
          A64Finding("REGISTER_SPILL", "high", func_name,
                     [what |-> first[i].s.text, line |-> first[i].s.line, line2 |-> 0])]

\* check_rust_asm_aarch64.analyze_function
a64_analyze_function(func_name, func_lines) ==
    a64_check_stack_retention(func_name, func_lines)
        \o a64_check_register_spill(func_name, func_lines)

\* the finding main writes for an error or an unknown architecture; id 0
\* stands for the fixed ids F-RUST-ASM-ERROR and F-RUST-ASM-SKIP-0001
MetaFinding(category, confidence) ==
    [id |-> 0, category |-> category, severity |-> "info", confidence |-> confidence,
     symbol |-> NoName, detail |-> "", ev |-> NoEv, instances |-> 0]

\* a finding of the final output has no confidence key
OutputFinding(f) ==
    [id |-> f.id, category |-> f.category, severity |-> f.severity, confidence |-> "absent",
     symbol |-> f.symbol, detail |-> f.detail, ev |-> f.ev, instances |-> f.instances]

\* ---- the inputs: one or two functions of one architecture ----
MaxAsmFunctions == 2

\* core::ptr::drop_in_place<example::SecretKey> and ...<example::Buffer>,
\* example::SecretKey<T>::wipe, example::helper
AmPath(shape) ==
    CASE shape = "drop_secret" ->
            << Seg("core", TRUE, FALSE), Seg("ptr", TRUE, FALSE),
               Seg("drop_in_place<example::SecretKey>", FALSE, TRUE) >>
      [] shape = "drop_buffer" ->
            << Seg("core", TRUE, FALSE), Seg("ptr", TRUE, FALSE),
               Seg("drop_in_place<example::Buffer>", FALSE, FALSE) >>
      [] shape = "wipe" -> InherentPath
      [] OTHER -> << Seg("example", TRUE, FALSE), Seg("helper", TRUE, FALSE) >>

AmShapes == {"drop_secret", "drop_buffer", "wipe", "helper"}

\* the symbol as rustc emits it; `<` is $LT$ and `::` inside it is `..`
AmMangled(shape, h) ==
    [segs |-> AmPath(shape), hash |-> h, mangled |-> TRUE,
     dotted |-> shape \in {"drop_secret", "drop_buffer"}]

AmBodies(arch) ==
    CASE arch = "x86_64" -> { <<"subq", "ret">>, <<"subq", "zero", "ret">> }
      [] arch = "aarch64" ->
            { <<"stp_fp", "a64ret">>, <<"stp_fp", "str_x19", "a64ret">>,
              <<"stp_fp", "str_xzr", "a64ret">>, <<"stp_fp", "bl_zeroize", "a64ret">>,
              <<"str_x19", "a64ret">> }
      [] OTHER -> { <<"nop", "a64ret">>, <<"bl_zeroize", "a64ret">> }

AmFunction(shape, body, h) ==
    << AsmLine("type", AmMangled(shape, h)), AsmLine("label", AmMangled(shape, h)) >>
    \o [i \in 1..Len(body) |-> AsmLine(body[i], NoName)]

RECURSIVE AmFile(_, _)
AmFile(fns, h) ==
    IF h > Len(fns) THEN << >>
    ELSE AmFunction(fns[h].shape, fns[h].body, h) \o AmFile(fns, h + 1)

AmFiles ==
    UNION { { AmFile(fns, 1) :
                fns \in UNION { [1..n -> [shape : AmShapes, body : AmBodies(arch)]] :
                                 n \in 1..MaxAsmFunctions } } :
            arch \in {"x86_64", "aarch64", "unknown"} }

AmAsm ==
    { [status |-> "missing", lines |-> << >>], [status |-> "unreadable", lines |-> << >>] }
    \cup { [status |-> "ok", lines |-> f] : f \in AmFiles }

AmObjects ==
    { << >>, << [language |-> "rust", name |-> "SecretKey"] >>,
      << [language |-> "c", name |-> "SecretKey"] >>,
      << [language |-> "rust", name |-> ""] >>,
      << [language |-> "rust", name |-> "ApiToken"] >> }

AmSecrets ==
    { [status |-> st, objects |-> << >>] : st \in {"absent", "corrupt", "unreadable", "strings"} }
    \cup { [status |-> "ok", objects |-> o] : o \in AmObjects }

AsmMainIdle ==
    /\ am_asm = [status |-> "", lines |-> << >>]
    /\ am_secrets = [status |-> "", objects |-> << >>]
    /\ am_rustfilt = FALSE /\ am_arch = "" /\ am_names = << >> /\ am_functions = << >>
    /\ am_idx = 1 /\ am_raw = << >> /\ am_counts = << >> /\ am_output = << >>
    /\ am_written = FALSE /\ am_exit = -1 /\ am_pc = "idle"

\* main is entered; the output file does not exist yet; exit -1: running
AsmMainStart ==
    /\ am_asm \in AmAsm
    /\ am_secrets \in AmSecrets
    /\ am_rustfilt \in BOOLEAN
    /\ am_arch = "" /\ am_names = << >> /\ am_functions = << >>
    /\ am_idx = 1 /\ am_raw = << >> /\ am_counts = << >> /\ am_output = << >>
    /\ am_written = FALSE /\ am_exit = -1 /\ am_pc = "start"

\* main, lines 292-301: the file is not there or cannot be read;
\* _write_empty_and_return(1, message) writes one ANALYSIS_ERROR finding
am_read_error ==
    /\ am_pc = "start"
    /\ am_asm.status \in {"missing", "unreadable"}
    /\ am_output' = << MetaFinding("ANALYSIS_ERROR", "absent") >>
    /\ am_written' = TRUE /\ am_exit' = 1 /\ am_pc' = "done"
    /\ UNCHANGED <<am_asm, am_secrets, am_rustfilt, am_arch, am_names, am_functions,
                   am_idx, am_raw, am_counts>>
    /\ UNCHANGED notAsmMain

\* main, lines 303-340: detect_architecture; both backends load; an unknown
\* architecture writes the skipped finding and returns 0
am_dispatch ==
    /\ am_pc = "start"
    /\ am_asm.status = "ok"
    /\ am_arch' = detect_architecture(am_asm.lines)
    /\ IF am_arch' = "unknown"
       THEN /\ am_output' = << MetaFinding("ANALYSIS_SKIPPED", "confirmed") >>
            /\ am_written' = TRUE /\ am_exit' = 0 /\ am_pc' = "done"
       ELSE /\ am_pc' = "secrets"
            /\ UNCHANGED <<am_output, am_written, am_exit>>
    /\ UNCHANGED <<am_asm, am_secrets, am_rustfilt, am_names, am_functions,
                   am_idx, am_raw, am_counts>>
    /\ UNCHANGED notAsmMain

\* main, lines 342-355: demangle_symbols, load_secrets, parse_functions; an
\* exception that leaves load_secrets ends the process with a traceback and
\* exit status 1
am_load ==
    /\ am_pc = "secrets"
    /\ LET loaded == load_secrets(am_secrets)
       IN CASE loaded.kind = "raise" ->
                  /\ am_exit' = 1 /\ am_pc' = "done"
                  /\ UNCHANGED <<am_names, am_functions, am_output, am_written>>
            [] loaded.kind = "none" ->
                  /\ am_output' = << MetaFinding("ANALYSIS_ERROR", "absent") >>
                  /\ am_written' = TRUE /\ am_exit' = 1 /\ am_pc' = "done"
                  /\ UNCHANGED <<am_names, am_functions>>
            [] OTHER ->
                  /\ am_names' = loaded.names
                  /\ am_functions' = parse_functions(demangle_symbols(am_asm.lines, am_rustfilt))
                  /\ am_pc' = "functions"
                  /\ UNCHANGED <<am_output, am_written, am_exit>>
    /\ UNCHANGED <<am_asm, am_secrets, am_rustfilt, am_arch, am_idx, am_raw, am_counts>>
    /\ UNCHANGED notAsmMain

\* main, lines 378-393: one iteration of the loop over functions.items()
am_function ==
    /\ am_pc = "functions"
    /\ am_idx <= Len(am_functions)
    /\ LET func_name == am_functions[am_idx].name
           func_lines == am_functions[am_idx].lines
           found == (IF am_arch = "x86_64"
                     THEN analyze_function(func_name, func_lines)
                     ELSE a64_analyze_function(func_name, func_lines))
                    \o check_drop_glue(func_name, func_lines)
           st == IF is_sensitive_function(func_name, am_names)
                 THEN RecordAll([raw |-> am_raw, counts |-> am_counts], found, 1,
                                BaseName(func_name))
                 ELSE [raw |-> am_raw, counts |-> am_counts]
       IN /\ am_raw' = st.raw
          /\ am_counts' = st.counts
    /\ am_idx' = am_idx + 1
    /\ UNCHANGED <<am_asm, am_secrets, am_rustfilt, am_arch, am_names, am_functions,
                   am_output, am_written, am_exit, am_pc>>
    /\ UNCHANGED notAsmMain

\* main, lines 395-420: the output is built and written
am_write ==
    /\ am_pc = "functions"
    /\ am_idx > Len(am_functions)
    /\ am_output' = [i \in 1..Len(am_raw) |-> OutputFinding(AsmOutput(am_raw, am_counts)[i])]
    /\ am_written' = TRUE /\ am_exit' = 0 /\ am_pc' = "done"
    /\ UNCHANGED <<am_asm, am_secrets, am_rustfilt, am_arch, am_names, am_functions,
                   am_idx, am_raw, am_counts>>
    /\ UNCHANGED notAsmMain

AsmMainNext == am_read_error \/ am_dispatch \/ am_load \/ am_function \/ am_write

(***************************************************************************)
(* analyze_cfg.py: compute_dominators and find_all_paths_to_exit, step by  *)
(* step, on the graphs create_node and add_edge can build                  *)
(*                                                                         *)
(* The graph is a builder record as above: node_0 is the entry node, the   *)
(* edges are appended in the order of EdgeOrder, so a node's successors    *)
(* list is in that order.                                                  *)
(***************************************************************************)
\* node.successors, in the order add_edge appended them
Successors(b, n) ==
    LET out == SelectSeq(b.edges, LAMBDA e : e[1] = n)
    IN [i \in 1..Len(out) |-> out[i][2]]

\* compute_dominators, lines 239-244: new_dom of node_id
NewDom(b, dominators, node_id) ==
    IF Predecessors(b, node_id) = {} THEN {node_id}
    ELSE {node_id} \cup Intersection({dominators[p] : p \in Predecessors(b, node_id)})

\* find_all_paths_to_exit, dfs: the visited set the caller holds after the
\* call dfs(succ_id, path, visited.copy()) returns; the callee worked on a
\* copy, which VisitedShared does not make
VisitedShared(caller_visited, callee_visited) == callee_visited

VisitedAfterCall(caller_visited, callee_visited) == caller_visited

\* a frame of dfs: i = 0 before the body runs, then the index of the next
\* successor of the for loop
Frame(node_id, visited) == [node |-> node_id, visited |-> visited, i |-> 0]

\* ---- the inputs: four nodes, up to MaxGraphEdges edges ----
MaxGraphEdges == 4

GraphNodes == 0..3

\* the pairs in the order in which add_edge is called
EdgeOrder ==
    [k \in 1..16 |-> << (k - 1) \div 4, (k - 1) % 4 >>]

GraphEdgeSets ==
    {E \in SUBSET {EdgeOrder[k] : k \in 1..16} : Cardinality(E) <= MaxGraphEdges}

RECURSIVE AddEdges(_, _, _)
AddEdges(b, E, k) ==
    IF k > Len(EdgeOrder) THEN b
    ELSE AddEdges(IF EdgeOrder[k] \in E THEN add_edge(b, EdgeOrder[k][1], EdgeOrder[k][2]) ELSE b,
                  E, k + 1)

\* create_node four times ("entry", then statements without text), add_edge
\* for every pair of E, and the exit nodes
GraphBuilder(E, exits) ==
    LET b0 == create_node(NewBuilder, "entry", 0, << >>)
        b1 == create_node(b0, "statement", 0, << >>)
        b2 == create_node(b1, "statement", 0, << >>)
        b3 == create_node(b2, "statement", 0, << >>)
    IN [AddEdges(b3, E, 1) EXCEPT !.exit_nodes = exits]

GraphIdle ==
    /\ gr_builder = NewBuilder
    /\ dom_sets = << >> /\ dom_todo = {} /\ dom_changed = FALSE
    /\ dfs_stack = << >> /\ dfs_path = << >> /\ dfs_paths = << >>
    /\ gr_pc = "idle"

\* compute_dominators, lines 219-232: the sets are initialized, the while
\* loop is entered and the for loop starts over all_nodes
DomStart ==
    /\ \E E \in GraphEdgeSets : gr_builder = GraphBuilder(E, {})
    /\ dom_sets = [n \in GraphNodes |-> IF n = 0 THEN {0} ELSE GraphNodes]
    /\ dom_todo = GraphNodes /\ dom_changed = FALSE
    /\ dfs_stack = << >> /\ dfs_path = << >> /\ dfs_paths = << >>
    /\ gr_pc = "pass"

\* compute_dominators, lines 235-248: one iteration of the for loop; a set
\* is iterated in an order the code does not choose
dom_visit ==
    /\ gr_pc = "pass"
    /\ \E node_id \in dom_todo :
         /\ dom_todo' = dom_todo \ {node_id}
         /\ IF node_id = 0 THEN UNCHANGED <<dom_sets, dom_changed>>
            ELSE LET new_dom == NewDom(gr_builder, dom_sets, node_id)
                 IN IF new_dom # dom_sets[node_id]
                    THEN /\ dom_sets' = [dom_sets EXCEPT ![node_id] = new_dom]
                         /\ dom_changed' = TRUE
                    ELSE UNCHANGED <<dom_sets, dom_changed>>
    /\ UNCHANGED <<gr_builder, dfs_stack, dfs_path, dfs_paths, gr_pc>>
    /\ UNCHANGED notGraph

\* compute_dominators, lines 233-234 and 250: the for loop is over; the while
\* loop goes on when a set changed
dom_pass_end ==
    /\ gr_pc = "pass"
    /\ dom_todo = {}
    /\ IF dom_changed
       THEN dom_todo' = GraphNodes /\ dom_changed' = FALSE /\ gr_pc' = "pass"
       ELSE gr_pc' = "done" /\ UNCHANGED <<dom_todo, dom_changed>>
    /\ UNCHANGED <<gr_builder, dom_sets, dfs_stack, dfs_path, dfs_paths>>
    /\ UNCHANGED notGraph

DomNext == dom_visit \/ dom_pass_end

\* find_all_paths_to_exit, line 204: dfs(self.entry_node, [], set())
PathsStart ==
    /\ \E E \in GraphEdgeSets : \E exits \in SUBSET GraphNodes :
         gr_builder = GraphBuilder(E, exits)
    /\ dom_sets = << >> /\ dom_todo = {} /\ dom_changed = FALSE
    /\ dfs_stack = << Frame(0, {}) >> /\ dfs_path = << >> /\ dfs_paths = << >>
    /\ gr_pc = "dfs"

\* the stack after the top call returned: its caller holds its visited set
DfsReturn(stack) ==
    LET n == Len(stack)
    IN IF n = 1 THEN << >>
       ELSE [SubSeq(stack, 1, n - 1) EXCEPT
                ![n - 1].visited = VisitedAfterCall(@, stack[n].visited)]

\* dfs, lines 186-196: the body up to the for loop
dfs_enter ==
    /\ gr_pc = "dfs"
    /\ dfs_stack # << >>
    /\ LET n == Len(dfs_stack)
           top == dfs_stack[n]
       IN /\ top.i = 0
          /\ IF top.node \in top.visited
             THEN /\ dfs_stack' = DfsReturn(dfs_stack)
                  /\ UNCHANGED <<dfs_path, dfs_paths>>
             ELSE IF top.node \in gr_builder.exit_nodes
             THEN /\ dfs_paths' = Append(dfs_paths, Append(dfs_path, top.node))
                  /\ dfs_stack' = DfsReturn([dfs_stack EXCEPT ![n].visited = @ \cup {top.node}])
                  /\ UNCHANGED dfs_path
             ELSE /\ dfs_stack' = [dfs_stack EXCEPT ![n].visited = @ \cup {top.node},
                                                    ![n].i = 1]
                  /\ dfs_path' = Append(dfs_path, top.node)
                  /\ UNCHANGED dfs_paths
    /\ UNCHANGED <<gr_builder, dom_sets, dom_todo, dom_changed, gr_pc>>
    /\ UNCHANGED notGraph

\* dfs, lines 197-201: one iteration of the for loop over node.successors,
\* or its end, path.pop() and the return
dfs_successor ==
    /\ gr_pc = "dfs"
    /\ dfs_stack # << >>
    /\ LET n == Len(dfs_stack)
           top == dfs_stack[n]
           succ == Successors(gr_builder, top.node)
       IN /\ top.i > 0
          /\ IF top.i <= Len(succ)
             THEN /\ dfs_stack' = Append([dfs_stack EXCEPT ![n].i = @ + 1],
                                         Frame(succ[top.i], top.visited))
                  /\ UNCHANGED dfs_path
             ELSE /\ dfs_stack' = DfsReturn(dfs_stack)
                  /\ dfs_path' = SubSeq(dfs_path, 1, Len(dfs_path) - 1)
    /\ UNCHANGED <<gr_builder, dom_sets, dom_todo, dom_changed, dfs_paths, gr_pc>>
    /\ UNCHANGED notGraph

\* find_all_paths_to_exit, line 205: return all_paths
dfs_done ==
    /\ gr_pc = "dfs"
    /\ dfs_stack = << >>
    /\ gr_pc' = "done"
    /\ UNCHANGED <<gr_builder, dom_sets, dom_todo, dom_changed, dfs_stack, dfs_path, dfs_paths>>
    /\ UNCHANGED notGraph

PathsNext == dfs_enter \/ dfs_successor \/ dfs_done

(***************************************************************************)
(* scripts/check_llvm_patterns.py: texts of several functions              *)
(***************************************************************************)
MaxFnLines == 5

\* define void @f() {, %key = load i64, ptr %buf, %buf = load i64, ptr %key,
\* call void @use(i64 %key), call void @use(i64 %buf),
\* call void @zeroize(i64 %key)
IRFnLineSet ==
    { IRLine("define", "f", 0, ""),
      IRLine("load", "key", 0, "buf"),
      IRLine("load", "buf", 0, "key"),
      IRLine("call", "use", 0, "key"),
      IRLine("call", "use", 0, "buf"),
      IRLine("call", "zeroize", 0, "key") }

IRFnTexts == SeqsUpTo(IRFnLineSet, MaxFnLines)

\* main with --o0 and --o2 naming files of the same text
IRFnStart ==
    /\ ir_present = {"O0", "O2"}
    /\ \E t \in IRFnTexts : ir_text = IRTextOf(t, t)
    /\ ir_findings = << >>
    /\ ir_pc = "read"

(***************************************************************************)
(* scripts/find_dangerous_apis.py: scan_async_suspension.  A line is the   *)
(* sequence of its tokens; the three regular expressions are searched in   *)
(* the whole line, the brace counter walks the line token by token.        *)
(***************************************************************************)

\* the bound of `for j in range(i, min(i + 500, len(lines)))`
ASYNC_BODY_LIMIT == 500

\* async_fn_re.search(line)
HasAsyncFn(line) == "async fn f()" \in Range(line)

\* await_re.search(line)
HasAwait(line) == ".await" \in Range(line)

IsLet(tok) == tok \in {"let key =", "let x ="}

\* let_binding_re.search(line) and SENSITIVE_NAME_RE.search(m.group(1)): the
\* search stops at the first `let` of the line
IsSecretBinding(line) ==
    \E t \in 1..Len(line) :
        /\ line[t] = "let key ="
        /\ \A s \in 1..(t - 1) : ~IsLet(line[s])

\* the `while k < len(line_text)` loop of one line, from token k on: the
\* pair <<depth, in_body>> after the line
RECURSIVE CountBraces(_, _, _, _, _)
CountBraces(line, k, in_str, depth, in_body) ==
    IF k > Len(line) THEN <<depth, in_body>>
    ELSE IF in_str
         THEN CountBraces(line, k + 1, line[k] # "\"", depth, in_body)
    ELSE IF line[k] = "\"" THEN CountBraces(line, k + 1, TRUE, depth, in_body)
    ELSE IF line[k] = "//" THEN <<depth, in_body>>
    ELSE IF line[k] = "{" THEN CountBraces(line, k + 1, FALSE, depth + 1, TRUE)
    ELSE IF line[k] = "}" THEN CountBraces(line, k + 1, FALSE, depth - 1, in_body)
    ELSE CountBraces(line, k + 1, FALSE, depth, in_body)

AsyncFinding(bind_line) ==
    [category |-> "NOT_ON_ALL_PATHS", severity |-> "high", line |-> bind_line]

\* the two loops after the body is found: secret_bindings, then for each
\* the first body line with lineno > bind_line that holds an await
SuspendedBindings(lines, body_lines) ==
    SelectSeq(body_lines,
              LAMBDA bind_line :
                  /\ IsSecretBinding(lines[bind_line])
                  /\ \E n \in 1..Len(body_lines) :
                         body_lines[n] > bind_line /\ HasAwait(lines[body_lines[n]]))

BodyFindings(lines, body_lines) ==
    LET b == SuspendedBindings(lines, body_lines)
    IN [n \in 1..Len(b) |-> AsyncFinding(b[n])]

MaxAsyncLines == 4

AsyncLineSet ==
    { <<"async fn f()", "{">>,
      <<"let key =">>,
      <<".await">>,
      <<"}">>,
      <<"let key =", ".await">>,
      <<".await", "let key =">>,
      <<"let x =", "let key =">>,
      <<"//", "}">>,
      <<"\"", "}", "\"">>,
      <<"async fn f()", "{", "let key =", ".await", "}">> }

AsyncShortFiles == UNION {[1..n -> AsyncLineSet] : n \in 1..MaxAsyncLines}

\* one async fn of n lines: the binding on line 2, an await on line a
AsyncLongFile(n, a) ==
    [l \in 1..n |-> IF l = 1 THEN <<"async fn f()", "{">>
                    ELSE IF l = n THEN <<"}">>
                    ELSE IF l = 2 /\ a = 2 THEN <<"let key =", ".await">>
                    ELSE IF l = 2 THEN <<"let key =">>
                    ELSE IF l = a THEN <<".await">>
                    ELSE <<"x">>]

AsyncLongFiles ==
    {AsyncLongFile(n, a) : n \in {ASYNC_BODY_LIMIT, ASYNC_BODY_LIMIT + 1},
                           a \in {2, 3, ASYNC_BODY_LIMIT - 1}}

AsyncIdle ==
    /\ as_lines = << >> /\ as_i = 0 /\ as_j = 0 /\ as_depth = 0
    /\ as_in_body = FALSE /\ as_body_lines = << >> /\ as_findings = << >>
    /\ as_pc = "idle"

\* scan_async_suspension is entered with the lines of one source text
AsyncStart ==
    /\ as_lines \in AsyncShortFiles \cup AsyncLongFiles
    /\ as_i = 0 /\ as_j = 0 /\ as_depth = 0
    /\ as_in_body = FALSE /\ as_body_lines = << >> /\ as_findings = << >>
    /\ as_pc = "scan"

\* `while i < len(lines)`: a line without an async fn header
async_skip_line ==
    /\ as_pc = "scan"
    /\ as_i < Len(as_lines)
    /\ ~HasAsyncFn(as_lines[as_i + 1])
    /\ as_i' = as_i + 1
    /\ UNCHANGED <<as_lines, as_j, as_depth, as_in_body, as_body_lines, as_findings,
                   as_pc>>
    /\ UNCHANGED notAsync

\* `while i < len(lines)`: a header line starts the search for the body
async_enter_fn ==
    /\ as_pc = "scan"
    /\ as_i < Len(as_lines)
    /\ HasAsyncFn(as_lines[as_i + 1])
    /\ as_j' = as_i
    /\ as_depth' = 0
    /\ as_in_body' = FALSE
    /\ as_body_lines' = << >>
    /\ as_pc' = "body"
    /\ UNCHANGED <<as_lines, as_i, as_findings>>
    /\ UNCHANGED notAsync

\* one iteration of `for j in range(i, min(i + 500, len(lines)))`; the
\* iteration that closes the body also collects the findings of the body
async_body_line ==
    /\ as_pc = "body"
    /\ as_j < Min(as_i + ASYNC_BODY_LIMIT, Len(as_lines))
    /\ LET r == CountBraces(as_lines[as_j + 1], 1, FALSE, as_depth, as_in_body)
           depth == r[1]
           in_body == r[2]
           body_lines == IF in_body THEN Append(as_body_lines, as_j + 1)
                         ELSE as_body_lines
       IN /\ as_depth' = depth
          /\ as_in_body' = in_body
          /\ as_body_lines' = body_lines
          /\ IF in_body /\ depth = 0
             THEN /\ as_i' = as_j + 1
                  /\ as_findings' = as_findings \o BodyFindings(as_lines, body_lines)
                  /\ as_pc' = "scan"
                  /\ as_j' = as_j
             ELSE /\ as_j' = as_j + 1
                  /\ UNCHANGED <<as_i, as_findings, as_pc>>
    /\ UNCHANGED as_lines
    /\ UNCHANGED notAsync

\* the `else` of the for loop: no closing brace in the range
async_body_not_closed ==
    /\ as_pc = "body"
    /\ as_j >= Min(as_i + ASYNC_BODY_LIMIT, Len(as_lines))
    /\ as_i' = as_i + 1
    /\ as_pc' = "scan"
    /\ UNCHANGED <<as_lines, as_j, as_depth, as_in_body, as_body_lines, as_findings>>
    /\ UNCHANGED notAsync

\* scan_async_suspension returns its findings
async_return ==
    /\ as_pc = "scan"
    /\ as_i >= Len(as_lines)
    /\ as_pc' = "done"
    /\ UNCHANGED <<as_lines, as_i, as_j, as_depth, as_in_body, as_body_lines,
                   as_findings>>
    /\ UNCHANGED notAsync

AsyncNext ==
    \/ async_skip_line
    \/ async_enter_fn
    \/ async_body_line
    \/ async_body_not_closed
    \/ async_return

(***************************************************************************)
(* analyze_ir_semantic.py: detect_loop_unrolled_wipes.  A function is the  *)
(* sequence of its basic blocks in the order of func.basic_blocks, a block *)
(* the sequence of its instructions; an address operand is the sequence of *)
(* its characters after the pointer type.                                  *)
(***************************************************************************)

Digits == {"0", "1", "2", "3", "4", "5", "6", "7", "8", "9"}

\* re.sub(r"\d+", "", addr)
StripDigits(addr) == SelectSeq(addr, LAMBDA ch : ch \notin Digits)

\* `"i8 0" in inst.operands[0] or "i32 0" in inst.operands[0]` on the value
\* operands of the model
StoresZero(inst) ==
    /\ inst.opcode = "store"
    /\ Len(inst.operands) > 0
    /\ inst.operands[1] \in {<<"i8 0">>, <<"i32 0">>}

\* _extract_store_address
extract_store_address(inst) ==
    IF Len(inst.operands) >= 2 THEN inst.operands[2] ELSE << >>

\* _are_sequential_addresses
are_sequential_addresses(addresses) ==
    IF Len(addresses) < 2 THEN FALSE
    ELSE \A n \in 2..Len(addresses) :
             StripDigits(addresses[n]) = StripDigits(addresses[1])

\* the zero stores of a block, in order
ZeroStores(bb) == SelectSeq(bb.instructions, StoresZero)

UNROLL_MIN_STORES == 4

\* the body of `for bb_label, bb in func.basic_blocks.items()`: the findings
\* of one block
UnrolledWipeFindings(bb) ==
    LET zero_stores == ZeroStores(bb)
        addresses == [n \in 1..Len(zero_stores) |-> extract_store_address(zero_stores[n])]
    IN IF Len(zero_stores) >= UNROLL_MIN_STORES /\ are_sequential_addresses(addresses)
       THEN << [type |-> "LOOP_UNROLLED_WIPE", block |-> bb.label,
                count |-> Len(zero_stores), first_line |-> zero_stores[1].line_num] >>
       ELSE << >>

MaxBlockInsts == 5

UnrollAddresses ==
    { <<"%", "p", ".", "0">>, <<"%", "p", ".", "1">>, <<"%", "p", ".", "2">>,
      <<"%", "p", ".", "3">>, <<"%", "q", ".", "0">> }

\* store i8 0 to one of the addresses, store i8 1, and a load
UnrollInstSet ==
    {[opcode |-> "store", operands |-> << <<"i8 0">>, a >>] : a \in UnrollAddresses}
    \cup {[opcode |-> "store", operands |-> << <<"i8 1">>, <<"%", "p", ".", "1">> >>],
          [opcode |-> "load", operands |-> << <<"i8">>, <<"%", "p", ".", "0">> >>]}

\* the block parse_ir builds from a label line and the instruction lines
\* that follow it, the label on line first - 1
UnrollBlock(label, first, insts) ==
    [label |-> label,
     instructions |-> [n \in 1..Len(insts) |->
                          [opcode |-> insts[n].opcode, operands |-> insts[n].operands,
                           line_num |-> first + n - 1]]]

UnrollOneBlock ==
    {<<UnrollBlock("entry", 3, insts)>> :
        insts \in UNION {[1..n -> UnrollInstSet] : n \in 1..MaxBlockInsts}}

\* the stores %p.0 .. %p.3 split over two blocks after k of them
UnrollTwoBlocks ==
    LET run == [n \in 1..4 |-> [opcode |-> "store",
                                operands |-> << <<"i8 0">>, <<"%", "p", ".", <<"0", "1", "2", "3">>[n]>> >>]]
    IN {<<UnrollBlock("entry", 3, SubSeq(run, 1, k)),
          UnrollBlock("next", 4 + k, SubSeq(run, k + 1, 4))>> : k \in 1..3}

UnrollIdle ==
    /\ uw_blocks = << >> /\ uw_bb = 1 /\ uw_findings = << >> /\ uw_pc = "idle"

\* detect_loop_unrolled_wipes is entered with one function
UnrollStart ==
    /\ uw_blocks \in UnrollOneBlock \cup UnrollTwoBlocks
    /\ uw_bb = 1 /\ uw_findings = << >> /\ uw_pc = "blocks"

\* one iteration of `for bb_label, bb in func.basic_blocks.items()`
unroll_block ==
    /\ uw_pc = "blocks"
    /\ uw_bb <= Len(uw_blocks)
    /\ uw_findings' = uw_findings \o UnrolledWipeFindings(uw_blocks[uw_bb])
    /\ uw_bb' = uw_bb + 1
    /\ UNCHANGED <<uw_blocks, uw_pc>>
    /\ UNCHANGED notUnroll

\* detect_loop_unrolled_wipes returns its findings
unroll_return ==
    /\ uw_pc = "blocks"
    /\ uw_bb > Len(uw_blocks)
    /\ uw_pc' = "done"
    /\ UNCHANGED <<uw_blocks, uw_bb, uw_findings>>
    /\ UNCHANGED notUnroll

UnrollNext == unroll_block \/ unroll_return

(***************************************************************************)
(* analyze_ir_semantic.py: parse_ir.  A line is the sequence of its        *)
(* tokens, a label or an operand the sequence of the tokens of its text.   *)
(* current_function is a function record (NoFunction for None) and         *)
(* current_block the position of the current block in its basic_blocks     *)
(* (0 for None), since the code's current_block is the object stored in    *)
(* the dictionary.                                                         *)
(***************************************************************************)

NoFunction == [name |-> "", basic_blocks |-> << >>, entry_block |-> << >>]

\* _parse_operands from token k on: depth counts the brackets, a comma at
\* depth 0 ends the operand
RECURSIVE ParseOperandsFrom(_, _, _, _, _)
ParseOperandsFrom(toks, k, depth, current, operands) ==
    IF k > Len(toks)
    THEN IF Len(current) > 0 THEN Append(operands, current) ELSE operands
    ELSE IF toks[k] \in {"(", "[", "{"}
         THEN ParseOperandsFrom(toks, k + 1, depth + 1, Append(current, toks[k]), operands)
    ELSE IF toks[k] \in {")", "]", "}"}
         THEN ParseOperandsFrom(toks, k + 1, depth - 1, Append(current, toks[k]), operands)
    ELSE IF toks[k] = "," /\ depth = 0
         THEN ParseOperandsFrom(toks, k + 1, depth, << >>,
                                IF Len(current) > 0 THEN Append(operands, current)
                                ELSE operands)
    ELSE ParseOperandsFrom(toks, k + 1, depth, Append(current, toks[k]), operands)

parse_operands(toks) == ParseOperandsFrom(toks, 1, 0, << >>, << >>)

\* _parse_instruction; opcode "" stands for the None it returns for a line
\* with nothing after the `=`
parse_instruction(line, line_num) ==
    LET eq == IF "=" \in Range(line)
              THEN CHOOSE k \in 1..Len(line) :
                       line[k] = "=" /\ \A j \in 1..(k - 1) : line[j] # "="
              ELSE 0
        rest == SubSeq(line, eq + 1, Len(line))
    IN IF Len(rest) = 0
       THEN [line_num |-> line_num, opcode |-> "", operands |-> << >>, result |-> << >>]
       ELSE [line_num |-> line_num, opcode |-> rest[1],
             operands |-> parse_operands(Tail(rest)),
             result |-> SubSeq(line, 1, eq - 1)]

\* the labels _update_control_flow takes from a br or a switch: of every
\* operand that holds `label`, the text without `label` and `%`
BranchLabels(inst) ==
    LET ops == SelectSeq(inst.operands, LAMBDA op : "label" \in Range(op))
    IN [n \in 1..Len(ops) |-> SelectSeq(ops[n], LAMBDA tok : tok \notin {"label", "%"})]

\* _update_control_flow on the blocks of the current function
update_control_flow(blocks, cur, inst) ==
    IF cur = 0 \/ inst.opcode \notin {"br", "switch"} THEN blocks
    ELSE LET labels == BranchLabels(inst)
             hits(b) == SelectSeq(labels, LAMBDA l : l = blocks[b].label)
         IN [b \in 1..Len(blocks) |->
                [blocks[b] EXCEPT
                    !.successors = IF b = cur THEN @ \o labels ELSE @,
                    !.predecessors =
                        IF inst.opcode = "br"
                        THEN @ \o [n \in 1..Len(hits(b)) |-> blocks[cur].label]
                        ELSE @]]

\* the position of the block of a label in basic_blocks, 0 when it has none
BlockIndex(blocks, label) ==
    IF \E b \in 1..Len(blocks) : blocks[b].label = label
    THEN CHOOSE b \in 1..Len(blocks) : blocks[b].label = label
    ELSE 0

MaxBodyLines == 4

SemLineSet ==
    { <<"a", ":">>,
      <<"b", ":">>,
      <<"br", "label", "%", "a">>,
      <<"br", "label", "%", "b">>,
      <<"br", "i1", "%", "c", ",", "label", "%", "a", ",", "label", "%", "b">>,
      <<"switch", "i32", "%", "v", ",", "label", "%", "a",
        "[", "i32", "1", ",", "label", "%", "b", "]">>,
      <<"ret", "void">>,
      <<"%", "v", "=", "load", "i8", ",", "ptr", "%", "p">>,
      <<";", "x">> }

\* one function: the define line, the body and the closing brace; no label
\* is defined twice
SemTexts ==
    {<< <<"define", "void", "@", "f", "(", ")", "{">> >> \o body \o << <<"}">> >> :
        body \in {t \in UNION {[1..n -> SemLineSet] : n \in 1..MaxBodyLines} :
                     \A i, j \in 1..Len(t) : (i # j /\ ":" \in Range(t[i])) => t[i] # t[j]}}

SemIdle ==
    /\ sem_lines = << >> /\ sem_line_num = 0 /\ sem_functions = << >>
    /\ sem_current_function = NoFunction /\ sem_current_block = 0 /\ sem_pc = "idle"

\* parse_ir has read the lines of the file
SemStart ==
    /\ sem_lines \in SemTexts
    /\ sem_line_num = 0 /\ sem_functions = << >>
    /\ sem_current_function = NoFunction /\ sem_current_block = 0 /\ sem_pc = "parse"

\* parse_ir: one iteration of `for line in lines`
parse_ir_line ==
    /\ sem_pc = "parse"
    /\ sem_line_num < Len(sem_lines)
    /\ sem_line_num' = sem_line_num + 1
    /\ LET line == sem_lines[sem_line_num + 1]
           fn == sem_current_function
       IN IF Len(line) = 0 \/ line[1] = ";"
          THEN UNCHANGED <<sem_functions, sem_current_function, sem_current_block>>
          ELSE IF line[1] = "define"
          THEN \* _parse_function_def: the name between `@` and `(`
               /\ sem_current_function' =
                    IF \E k \in 1..(Len(line) - 2) : line[k] = "@" /\ line[k + 2] = "("
                    THEN LET k == CHOOSE j \in 1..(Len(line) - 2) :
                                      /\ line[j] = "@" /\ line[j + 2] = "("
                                      /\ \A i \in 1..(j - 1) :
                                             ~(line[i] = "@" /\ line[i + 2] = "(")
                         IN [name |-> line[k + 1], basic_blocks |-> << >>,
                             entry_block |-> << >>]
                    ELSE fn
               /\ UNCHANGED <<sem_functions, sem_current_block>>
          ELSE IF line = <<"}">> /\ fn # NoFunction
          THEN /\ sem_functions' =
                    IF \E n \in 1..Len(sem_functions) : sem_functions[n].name = fn.name
                    THEN [n \in 1..Len(sem_functions) |->
                             IF sem_functions[n].name = fn.name THEN fn
                             ELSE sem_functions[n]]
                    ELSE Append(sem_functions, fn)
               /\ sem_current_function' = NoFunction
               /\ sem_current_block' = 0
          ELSE IF fn # NoFunction /\ ":" \in Range(line) /\ line[1] # "%"
          THEN LET colon == CHOOSE k \in 1..Len(line) :
                                line[k] = ":" /\ \A j \in 1..(k - 1) : line[j] # ":"
                   label == SubSeq(line, 1, colon - 1)
                   block == [label |-> label, instructions |-> << >>,
                             successors |-> << >>, predecessors |-> << >>]
                   at == BlockIndex(fn.basic_blocks, label)
                   blocks == IF at = 0 THEN Append(fn.basic_blocks, block)
                             ELSE [fn.basic_blocks EXCEPT ![at] = block]
               IN /\ sem_current_function' =
                       [fn EXCEPT !.basic_blocks = blocks,
                                  !.entry_block = IF @ = << >> THEN label ELSE @]
                  /\ sem_current_block' = IF at = 0 THEN Len(blocks) ELSE at
                  /\ UNCHANGED sem_functions
          ELSE IF fn # NoFunction /\ sem_current_block # 0
          THEN LET inst == parse_instruction(line, sem_line_num + 1)
                   cur == sem_current_block
                   added == [fn.basic_blocks EXCEPT
                                ![cur].instructions = Append(@, inst)]
               IN /\ sem_current_function' =
                       IF inst.opcode = "" THEN fn
                       ELSE [fn EXCEPT !.basic_blocks = update_control_flow(added, cur, inst)]
                  /\ UNCHANGED <<sem_functions, sem_current_block>>
          ELSE UNCHANGED <<sem_functions, sem_current_function, sem_current_block>>
    /\ UNCHANGED <<sem_lines, sem_pc>>
    /\ UNCHANGED notSem

\* parse_ir returns
parse_ir_return ==
    /\ sem_pc = "parse"
    /\ sem_line_num >= Len(sem_lines)
    /\ sem_pc' = "done"
    /\ UNCHANGED <<sem_lines, sem_line_num, sem_functions, sem_current_function,
                   sem_current_block>>
    /\ UNCHANGED notSem

SemNext == parse_ir_line \/ parse_ir_return

(***************************************************************************)
(* The specifications                                                      *)
(***************************************************************************)
GateInit ==
    GateStart /\ IRIdle /\ CFGIdle /\ MIRIdle /\ AsmIdle /\ PocIdle
        /\ FlagsIdle /\ GenIdle /\ ScanIdle /\ X86Idle /\ AsmMainIdle
        /\ GraphIdle /\ AsyncIdle /\ UnrollIdle /\ SemIdle

SpecGate == GateInit /\ [][GateNext]_vars

IRInit ==
    IRStart /\ GateIdle /\ CFGIdle /\ MIRIdle /\ AsmIdle /\ PocIdle
        /\ FlagsIdle /\ GenIdle /\ ScanIdle /\ X86Idle /\ AsmMainIdle
        /\ GraphIdle /\ AsyncIdle /\ UnrollIdle /\ SemIdle

SpecIR == IRInit /\ [][IRNext]_vars

CFGInit ==
    CFGStart /\ GateIdle /\ IRIdle /\ MIRIdle /\ AsmIdle /\ PocIdle
        /\ FlagsIdle /\ GenIdle /\ ScanIdle /\ X86Idle /\ AsmMainIdle
        /\ GraphIdle /\ AsyncIdle /\ UnrollIdle /\ SemIdle

SpecCFG == CFGInit /\ [][CFGNext]_vars

MIRInit ==
    MIRStart /\ GateIdle /\ IRIdle /\ CFGIdle /\ AsmIdle /\ PocIdle
        /\ FlagsIdle /\ GenIdle /\ ScanIdle /\ X86Idle /\ AsmMainIdle
        /\ GraphIdle /\ AsyncIdle /\ UnrollIdle /\ SemIdle

SpecMIR == MIRInit /\ [][MIRNext]_vars

AsmInit ==
    AsmStart /\ GateIdle /\ IRIdle /\ CFGIdle /\ MIRIdle /\ PocIdle
        /\ FlagsIdle /\ GenIdle /\ ScanIdle /\ X86Idle /\ AsmMainIdle
        /\ GraphIdle /\ AsyncIdle /\ UnrollIdle /\ SemIdle

SpecAsm == AsmInit /\ [][AsmNext]_vars

PocInit ==
    PocStart /\ GateIdle /\ IRIdle /\ CFGIdle /\ MIRIdle /\ AsmIdle
        /\ FlagsIdle /\ GenIdle /\ ScanIdle /\ X86Idle /\ AsmMainIdle
        /\ GraphIdle /\ AsyncIdle /\ UnrollIdle /\ SemIdle

SpecPoc == PocInit /\ [][PocNext]_vars

FlagsInit ==
    FlagsStart /\ GateIdle /\ IRIdle /\ CFGIdle /\ MIRIdle /\ AsmIdle
        /\ PocIdle /\ GenIdle /\ ScanIdle /\ X86Idle /\ AsmMainIdle
        /\ GraphIdle /\ AsyncIdle /\ UnrollIdle /\ SemIdle

SpecFlags == FlagsInit /\ [][FlagsNext]_vars

GenInit ==
    GenStart /\ GateIdle /\ IRIdle /\ CFGIdle /\ MIRIdle /\ AsmIdle
        /\ PocIdle /\ FlagsIdle /\ ScanIdle /\ X86Idle /\ AsmMainIdle
        /\ GraphIdle /\ AsyncIdle /\ UnrollIdle /\ SemIdle

SpecGen == GenInit /\ [][GenNext]_vars

ScanInit ==
    ScanStart /\ GateIdle /\ IRIdle /\ CFGIdle /\ MIRIdle /\ AsmIdle
        /\ PocIdle /\ FlagsIdle /\ GenIdle /\ X86Idle /\ AsmMainIdle
        /\ GraphIdle /\ AsyncIdle /\ UnrollIdle /\ SemIdle

SpecScan == ScanInit /\ [][ScanNext]_vars

IRMultiInit ==
    IRMultiStart /\ GateIdle /\ CFGIdle /\ MIRIdle /\ AsmIdle /\ PocIdle
        /\ FlagsIdle /\ GenIdle /\ ScanIdle /\ X86Idle /\ AsmMainIdle
        /\ GraphIdle /\ AsyncIdle /\ UnrollIdle /\ SemIdle

SpecIRMulti == IRMultiInit /\ [][IRNext]_vars

X86Init ==
    X86Start /\ GateIdle /\ IRIdle /\ CFGIdle /\ MIRIdle /\ AsmIdle
        /\ PocIdle /\ FlagsIdle /\ GenIdle /\ ScanIdle /\ AsmMainIdle
        /\ GraphIdle /\ AsyncIdle /\ UnrollIdle /\ SemIdle

SpecX86 == X86Init /\ [][X86Next]_vars

AsmMainInit ==
    AsmMainStart /\ GateIdle /\ IRIdle /\ CFGIdle /\ MIRIdle /\ AsmIdle
        /\ PocIdle /\ FlagsIdle /\ GenIdle /\ ScanIdle /\ X86Idle
        /\ GraphIdle /\ AsyncIdle /\ UnrollIdle /\ SemIdle

SpecAsmMain == AsmMainInit /\ [][AsmMainNext]_vars

DomInit ==
    DomStart /\ GateIdle /\ IRIdle /\ CFGIdle /\ MIRIdle /\ AsmIdle
        /\ PocIdle /\ FlagsIdle /\ GenIdle /\ ScanIdle /\ X86Idle
        /\ AsmMainIdle /\ AsyncIdle /\ UnrollIdle /\ SemIdle

SpecDom == DomInit /\ [][DomNext]_vars

\* the while loop and the for loop of compute_dominators run on
SpecDomFair == SpecDom /\ WF_vars(DomNext)

PathsInit ==
    PathsStart /\ GateIdle /\ IRIdle /\ CFGIdle /\ MIRIdle /\ AsmIdle
        /\ PocIdle /\ FlagsIdle /\ GenIdle /\ ScanIdle /\ X86Idle
        /\ AsmMainIdle /\ AsyncIdle /\ UnrollIdle /\ SemIdle

SpecPaths == PathsInit /\ [][PathsNext]_vars

\* a call of dfs runs to its return
SpecPathsFair == SpecPaths /\ WF_vars(PathsNext)

IRFnInit ==
    IRFnStart /\ GateIdle /\ CFGIdle /\ MIRIdle /\ AsmIdle /\ PocIdle
        /\ FlagsIdle /\ GenIdle /\ ScanIdle /\ X86Idle /\ AsmMainIdle
        /\ GraphIdle /\ AsyncIdle /\ UnrollIdle /\ SemIdle

SpecIRFn == IRFnInit /\ [][IRNext]_vars

AsyncInit ==
    AsyncStart /\ GateIdle /\ IRIdle /\ CFGIdle /\ MIRIdle /\ AsmIdle
        /\ PocIdle /\ FlagsIdle /\ GenIdle /\ ScanIdle /\ X86Idle
        /\ AsmMainIdle /\ GraphIdle /\ UnrollIdle /\ SemIdle

SpecAsync == AsyncInit /\ [][AsyncNext]_vars

SpecAsyncFair == SpecAsync /\ WF_vars(AsyncNext)

UnrollInit ==
    UnrollStart /\ GateIdle /\ IRIdle /\ CFGIdle /\ MIRIdle /\ AsmIdle
        /\ PocIdle /\ FlagsIdle /\ GenIdle /\ ScanIdle /\ X86Idle
        /\ AsmMainIdle /\ GraphIdle /\ AsyncIdle /\ SemIdle

SpecUnroll == UnrollInit /\ [][UnrollNext]_vars

SemInit ==
    SemStart /\ GateIdle /\ IRIdle /\ CFGIdle /\ MIRIdle /\ AsmIdle
        /\ PocIdle /\ FlagsIdle /\ GenIdle /\ ScanIdle /\ X86Idle
        /\ AsmMainIdle /\ GraphIdle /\ AsyncIdle /\ UnrollIdle

SpecSem == SemInit /\ [][SemNext]_vars

(***************************************************************************)
(* Claims about the confidence gate (SpecGate)                             *)
(***************************************************************************)
\* the finding at index i carries the note in its evidence text
HasNote(f, note) == f.ev.kind = "str" /\ note[2] \in Range(f.ev.text)

\* the gate has flagged the finding and appended the note
GatedWith(f, note) == f.nr = "true" /\ HasNote(f, note)

\* C1: apply_gates never removes, adds or reorders findings and never changes
\* a finding's confidence: at every point of a run the findings list has the
\* length of the input, holds the input's findings in the input's order, and
\* every finding has the confidence it came with (confirmed stays confirmed).
C1_GateKeepsFindingsAndConfidence ==
    /\ Len(g_report) = Len(g_input)
    /\ \A i \in 1..Len(g_input) :
         /\ g_report[i].id = g_input[i].id
         /\ g_report[i].category = g_input[i].category
         /\ g_report[i].confidence = g_input[i].confidence
         /\ (g_input[i].confidence = "confirmed" => g_report[i].confidence = "confirmed")

\* C1 witness: a finished run over two findings in which a confirmed finding
\* was gated.
C1_Witness ==
    /\ g_pc = "done"
    /\ Len(g_report) = 2
    /\ \E i \in 1..Len(g_report) :
         /\ g_input[i].confidence = "confirmed"
         /\ g_input[i].nr # "true"
         /\ g_report[i].nr = "true"
         /\ g_report[i].ev # g_input[i].ev

\* C6: for STACK_RETENTION / REGISTER_SPILL findings whose evidence is a list
\* of evidence records, apply_gates completes normally and gates a finding
\* (needs_review plus the assembly note) exactly when no record of it has the
\* source asm.
C6_AsmRuleOnEvidenceRecords ==
    (\A i \in 1..Len(g_input) :
        /\ g_input[i].category \in ASM_REQUIRED_CATEGORIES
        /\ g_input[i].ev.kind = "list")
    => /\ g_pc # "raised"
       /\ g_pc = "done" =>
            \A i \in 1..Len(g_input) :
                GatedWith(g_report[i], NoteAsm) <=> "asm" \notin Range(g_input[i].ev.recs)

\* compiler_evidence is absent or empty
CeAbsentOrEmpty(f) ==
    \/ f.ce.kind = "absent"
    \/ f.ce.kind = "dict" /\ f.ce.truthy \cup f.ce.falsy = {}

\* C7: after a run, an OPTIMIZED_AWAY_ZEROIZE finding is gated (needs_review
\* plus the optimized-away note) exactly when its compiler_evidence is absent
\* or empty; a present, non-empty compiler_evidence leaves it ungated whatever
\* keys it holds.
C7_OptimizedAwayRule ==
    g_pc = "done" =>
        \A i \in 1..Len(g_input) :
            g_input[i].category = "OPTIMIZED_AWAY_ZEROIZE" =>
                (GatedWith(g_report[i], NoteOpt) <=> CeAbsentOrEmpty(g_input[i]))

\* the evidence b is the evidence a with the note appended
NoteAppended(a, b, note) ==
    /\ ~ConcatRaises(a)
    /\ b.ev.kind = "str"
    /\ b.ev.text = IF EvidenceOrEmpty(a) = <<>> THEN <<note[2]>>
                   ELSE EvidenceOrEmpty(a) \o note

\* the evidence of a finding mentions asm: a record with the source asm, or
\* text holding "asm" in either case
MentionsAsm(a) ==
    \/ a.ev.kind = "list" /\ "asm" \in Range(a.ev.recs)
    \/ a.ev.kind = "str" /\ Contains(Lower(a.ev.text), <<"a", "s", "m">>)

\* the three gating conditions as the gate is specified
GatingConditionMet(a, mcp_available, require_mcp_for_advanced) ==
    \/ a.category = "OPTIMIZED_AWAY_ZEROIZE" /\ CeAbsentOrEmpty(a)
    \/ a.category \in ASM_REQUIRED_CATEGORIES /\ ~MentionsAsm(a)
    \/ require_mcp_for_advanced /\ ~mcp_available
         /\ a.category \in ADVANCED_MCP_CATEGORIES

\* C8: apply_gates changes nothing of a finding except the needs_review flag
\* and an appended [gated: ...] note; a finding that meets no gating condition
\* is unchanged; needs_review, once true, is never set back to false.
C8_GateFrame ==
    \A i \in 1..Len(g_input) :
        LET a == g_input[i]
            b == g_report[i]
        IN /\ b.id = a.id /\ b.category = a.category
           /\ b.confidence = a.confidence /\ b.ce = a.ce
           /\ b.nr \in {a.nr, "true"}
           /\ \/ b.ev = a.ev
              \/ \E note \in {NoteOpt, NoteAsm, NoteMcp} : NoteAppended(a, b, note)
           /\ (~GatingConditionMet(a, g_mcp, g_req) => b = a)
           /\ (a.nr = "true" => b.nr = "true")

\* ---- check_llvm_patterns.py ----
IRDone == ir_pc = "done"

\* the number of `store volatile` lines of a text
VolatileStores(text) == Cardinality({i \in 1..Len(text) : text[i].k = "vstore"})

\* the number of volatile stores of a text whose destination is %S
VolatileStoresTo(text, S) ==
    Cardinality({i \in 1..Len(text) : text[i].k = "vstore" /\ text[i].sym = S})

IRFindingsOf(sec) ==
    {i \in 1..Len(ir_findings) :
        /\ ir_findings[i].sec = sec
        /\ ir_findings[i].category = "OPTIMIZED_AWAY_ZEROIZE"
        /\ ir_findings[i].severity = "high"}

\* C2: when the O0 text has more volatile stores than the O2 text, exactly one
\* total-count OPTIMIZED_AWAY_ZEROIZE (high) finding is emitted, and for every
\* destination symbol S with more volatile stores at O0 than at O2 (none at O2
\* counts as 0) exactly one per-symbol OPTIMIZED_AWAY_ZEROIZE (high) finding
\* with symbol S is emitted by the O0 -> O2 pass.
C2_TotalAndPerSymbolFindings ==
    IRDone =>
      /\ VolatileStores(ir_text["O0"]) > VolatileStores(ir_text["O2"])
           => Cardinality(IRFindingsOf("total")) = 1
      /\ \A S \in Range(IRNames) :
           VolatileStoresTo(ir_text["O0"], S) > VolatileStoresTo(ir_text["O2"], S)
             => Cardinality({i \in IRFindingsOf("symbol") : ir_findings[i].symbol = S}) = 1

\* O0 stores twice to %key, O2 keeps one of the two stores: the total finding
\* and the finding of %key are there
C2_Witness ==
    /\ IRDone
    /\ VolatileStoresTo(ir_text["O0"], "key") = 2
    /\ VolatileStoresTo(ir_text["O2"], "key") = 1
    /\ VolatileStores(ir_text["O2"]) = 1
    /\ Cardinality(IRFindingsOf("total")) = 1
    /\ \E i \in IRFindingsOf("symbol") :
         ir_findings[i].symbol = "key" /\ ir_findings[i].a = 2 /\ ir_findings[i].b = 1

IRIdentical ==
    /\ IRDone
    /\ ir_present = {"O0", "O2"}
    /\ ir_text["O0"] = ir_text["O2"]

HasSingleFileTrigger(text) ==
    \/ \E i \in 1..Len(text) : text[i].k = "memset" /\ text[i].n = 0
    \/ \E i \in 1..Len(text) : text[i].k = "ret" /\ SecretNamed(text[i].sym)
    \/ \E i \in 1..Len(text) :
         text[i].k = "call" /\ text[i].n = 1 /\ SecretNamed(text[i].arg)
    \/ \E i, j \in 1..Len(text) :
         /\ i < j
         /\ text[i].k = "load" /\ SecretLoadNamed(text[i].sym)
         /\ text[j].k = "call" /\ ~WipeCallee(text[j].sym) /\ text[j].arg = text[i].sym
         /\ \A m \in (i + 1)..(j - 1) : text[m].k # "define"
    \/ \E i, j \in 1..Len(text) :
         /\ text[i].k = "alloca" /\ text[i].n \in SECRET_ALLOCA_SIZES
         /\ \A m \in (i + 1)..Len(text) : ~(text[m].k = "alloca" /\ text[m].sym = text[i].sym)
         /\ text[j].k = "lifetime" /\ text[j].sym = text[i].sym
         /\ VolatileStoresTo(text, text[i].sym) = 0

CFGDone == cfg_pc = "done"

\* the lines of the exits the branch without the wipe call leads to: its own
\* return, or else every exit after the if/else
OtherBranchExitLines ==
    LET other_line == IF cfg_prog.wipe_in = "else" THEN 3
                      ELSE IF cfg_prog.layout = "next_line" THEN 6 ELSE 5
        after == 1 + Len(IfElse(cfg_prog))
    IN IF cfg_prog.other = "return" THEN {other_line}
       ELSE {n \in 1..Len(cfg_src) : n > after}

\* C4: with the only wipe call inside one branch of an if/else, the verdict is
\* wipe_dominates_all_exits = false and every exit reached through the other
\* branch is listed as problematic, in each brace layout of the else.
C4_WipeInOneBranchDoesNotDominate ==
    CFGDone =>
      /\ ~cfg_result.wipe_dominates_all_exits
      /\ \A e \in cfg_builder.exit_nodes :
           cfg_builder.nodes[e + 1].line_num \in OtherBranchExitLines
             => e \in cfg_result.problematic_exits

\* ---- check_mir_patterns.py ----
\* C5: two runs of analyze on the same MIR text and the same sensitive-object
\* list give the same ordered list of findings with the same ids.
C5_RunsGiveSameFindings ==
    \A i, j \in 1..Len(mir_out) : mir_out[i] = mir_out[j]

\* ---- check_rust_asm.py ----
\* every instance of the input triggers the STACK_RETENTION check
AsmEachInstanceTriggers ==
    /\ \E i \in 1..Len(asm_in.body) : asm_in.body[i] = "subq"
    /\ \E i \in 1..Len(asm_in.body) : asm_in.body[i] = "ret"
    /\ \A i \in 1..Len(asm_in.body) : asm_in.body[i] # "zero"

\* C9: for M >= 2 monomorphized instances of one generic function that each
\* trigger the same check, the output holds exactly one finding of the
\* category for the base name, and its evidence detail records the instance
\* count M; with rustfilt and with the fallback demangler.
C9_OneFindingWithInstanceCount ==
    (asm_pc = "done" /\ AsmEachInstanceTriggers) =>
      LET hits == {i \in 1..Len(asm_output) : asm_output[i].category = "STACK_RETENTION"}
      IN /\ Cardinality(hits) = 1
         /\ \A i \in hits : asm_output[i].instances = asm_in.m

\* ---- generate_poc.py ----
PocFiltered == poc_pc \in {"filtered", "exit2"}

PocKept(i) == \E j \in 1..Len(poc_result) : poc_result[j].id = i

\* C10: with the filter active at threshold T, a finding of a selected
\* category is kept exactly when its confidence is T or better in the order
\* confirmed < likely < needs_review; with no_confidence_filter every finding
\* of a selected category is kept.
C10_FilterByFindingConfidence ==
    PocFiltered =>
      \A i \in 1..Len(poc_findings) :
         LET f == poc_findings[i]
         IN /\ f.category \notin poc_selected => ~PocKept(i)
            /\ (f.category \in poc_selected /\ poc_min_confidence = "None") => PocKept(i)
            /\ (/\ f.category \in poc_selected
                /\ poc_min_confidence \in {"confirmed", "likely", "needs_review"}
                /\ f.confidence # "absent")
                 => (PocKept(i) <=>
                       CONFIDENCE_ORDER(f.confidence) <= CONFIDENCE_ORDER(poc_min_confidence))

(***************************************************************************)
(* Claims about the PoC synthesizer's run (SpecGen)                        *)
(***************************************************************************)
\* the findings that survive the filter of the run
GenSurviving ==
    SelectSeq(gen_findings, LAMBDA f : Keeps(f, EXPLOITABLE_CATEGORIES, gen_min_confidence))

\* the names of the rules of the written Makefile
GenMakefileTargets == {gen_targets[i].binary : i \in 1..Len(gen_targets)}

\* C11: when run returns 0, every surviving finding has its own PoC source
\* file, its own Makefile rule and its own manifest entry: the number of
\* distinct PoC source files in the output directory, the number of distinct
\* Makefile targets and pocs_generated all equal the number of surviving
\* findings, whatever the ids of the findings are.
C11_OnePocPerSurvivingFinding ==
    gen_pc = "exit0" =>
        /\ Cardinality(gen_files) = Len(GenSurviving)
        /\ Cardinality(GenMakefileTargets) = Len(GenSurviving)
        /\ gen_manifest.pocs_generated = Len(GenSurviving)
        /\ Len(gen_manifest.entries) = Len(GenSurviving)

(***************************************************************************)
(* Claims about the compile-flag filter (SpecFlags)                        *)
(***************************************************************************)
\* a is b with some elements left out
RECURSIVE IsSubsequence(_, _)
IsSubsequence(a, b) ==
    IF a = << >> THEN TRUE
    ELSE IF b = << >> THEN FALSE
    ELSE IF Head(a) = Head(b) THEN IsSubsequence(Tail(a), Tail(b))
    ELSE IsSubsequence(a, Tail(b))

FlagsExtracted == fl_pc \in {"extracted", "done"}

\* C12: for every token list L, _extract_flags(L) is a subsequence of L (the
\* kept tokens in their original order, none altered or added), and
\* filtering the result again gives the same result.
C12_FilterIdempotentOrderPreserving ==
    FlagsExtracted =>
        /\ IsSubsequence(fl_flags, fl_raw)
        /\ extract_flags(fl_flags) = fl_flags

\* C12 witness: a list of three tokens of which one in the middle was
\* stripped and two different ones were kept.
C12_Witness ==
    /\ FlagsExtracted
    /\ Len(fl_raw) = 3 /\ Len(fl_flags) = 2
    /\ fl_flags[1] = fl_raw[1] /\ fl_flags[2] = fl_raw[3]
    /\ fl_flags[1] # fl_flags[2]

\* the token is an output or dependency-emission flag, standalone or with a
\* value attached by "="
IsOutputOrDepFlag(token) ==
    /\ token.flag \in {"-o", "-MD", "-MMD", "-MP", "-MG", "-MF", "-MT", "-MQ"}
    /\ token.att \in {"", "=x"}

\* the index i holds a standalone -o/-MF/-MT/-MQ that is read as a flag: no
\* earlier token of the list is such a flag
IsFirstFlagWithArg(L, i) ==
    /\ InSet(L[i], STRIP_WITH_ARG)
    /\ \A j \in 1..(i - 1) : ~InSet(L[j], STRIP_WITH_ARG)

\* C13: the output of _extract_flags holds no output flag (-o) and no
\* dependency-emission flag (-MD, -MMD, -MP, -MG, -MF, -MT, -MQ), standalone
\* or attached with "="; and a standalone -o, -MF, -MT or -MQ is removed
\* together with the one token that follows it: the output is the output for
\* the tokens before it followed by the output for the tokens after its
\* argument.
C13_OutputAndDependencyFlagsStripped ==
    FlagsExtracted =>
        /\ \A k \in 1..Len(fl_flags) : ~IsOutputOrDepFlag(fl_flags[k])
        /\ \A i \in 1..Len(fl_raw) :
              IsFirstFlagWithArg(fl_raw, i) =>
                  fl_flags = extract_flags(SubSeq(fl_raw, 1, i - 1))
                             \o extract_flags(SubSeq(fl_raw, i + 2, Len(fl_raw)))

\* the token is an optimization level
IsOptimizationFlag(token) ==
    /\ token.flag = "-O"
    /\ token.att \in {"", "0", "1", "2", "3", "s", "z", "g", "fast"}

\* C14: no optimization-level token of the database entry (-O, -O0..-O3, -Os,
\* -Oz, -Og, -Ofast) is among the flags placed in the generated Makefile
\* rule; the rule's only optimization flag is the generator's opt_level.
C14_NoDatabaseOptimizationFlagInRule ==
    fl_pc = "done" => \A k \in 1..Len(fl_rule) : ~IsOptimizationFlag(fl_rule[k])

(***************************************************************************)
(* Claims about the source scanner (SpecScan)                              *)
(***************************************************************************)
\* The comment structure of a file: a "//" outside a block comment makes
\* the rest of its line a comment, a "/*" outside any comment opens a block
\* comment that the next "*/" closes.  The state before token k of a line:
\* block (inside a block comment), linec (inside a // comment).
RECURSIVE LexTokens(_, _, _)
LexTokens(line, k, st) ==
    IF k = 0 THEN st
    ELSE LET before == LexTokens(line, k - 1, st)
             t == line[k]
         IN IF before.linec THEN before
            ELSE IF before.block
                 THEN (IF t = "*/" THEN [block |-> FALSE, linec |-> FALSE] ELSE before)
            ELSE IF t = "//" THEN [block |-> FALSE, linec |-> TRUE]
            ELSE IF t = "/*" THEN [block |-> TRUE, linec |-> FALSE]
            ELSE before

\* inside a block comment at the start of line ln
RECURSIVE BlockAtLineStart(_, _)
BlockAtLineStart(lines, ln) ==
    IF ln = 1 THEN FALSE
    ELSE LexTokens(lines[ln - 1], Len(lines[ln - 1]),
                   [block |-> BlockAtLineStart(lines, ln - 1), linec |-> FALSE]).block

\* token k of line ln lies inside a comment
InComment(lines, ln, k) ==
    LET st == LexTokens(lines[ln], k - 1,
                        [block |-> BlockAtLineStart(lines, ln), linec |-> FALSE])
    IN st.block \/ st.linec

\* pattern p has a match outside any comment on line ln
MatchOutsideComment(lines, p, ln) ==
    \E k \in 1..Len(lines[ln]) :
        lines[ln][k] = SCAN_PATTERNS[p].token /\ ~InComment(lines, ln, k)

ScanFindingFor(p, ln) ==
    \E i \in 1..Len(scan_findings) :
        scan_findings[i].pattern = p /\ scan_findings[i].line = ln

\* C15: scan_file_patterns never emits a finding for a pattern whose match
\* lies inside a // comment or a /* */ comment (on a whole line, over several
\* lines, or after code on the same line), and never skips a match that is
\* outside any comment: after the scan a pattern has a finding on a line
\* exactly when it has a match outside a comment there.
C15_CommentsExcludedCodeScanned ==
    scan_pc = "done" =>
        \A p \in 1..Len(SCAN_PATTERNS) : \A ln \in 1..Len(scan_lines) :
            ScanFindingFor(p, ln) <=> MatchOutsideComment(scan_lines, p, ln)

\* a sensitive name is at most SCAN_WINDOW lines away from line ln (1-based),
\* i.e. on a 0-based index in [max(0, i-15), min(n-1, i+15)] with i = ln - 1
SensitiveNameNear(lines, ln) ==
    \E j \in 1..Len(lines) :
        /\ j - ln <= SCAN_WINDOW /\ ln - j <= SCAN_WINDOW
        /\ HasSensitiveName(lines[j])

\* C16: every finding has confidence likely exactly when a sensitive name is
\* on a line at most 15 lines away from the match (within the file), and
\* needs_review otherwise: 15 lines away gives likely, 16 lines away does not.
C16_ContextWindow ==
    \A i \in 1..Len(scan_findings) :
        /\ scan_findings[i].confidence \in {"likely", "needs_review"}
        /\ scan_findings[i].confidence = "likely"
             <=> SensitiveNameNear(scan_lines, scan_findings[i].line)

\* C16 witness: a finished scan of a file of at least 33 lines with the match
\* on line 17 and the only sensitive name exactly 15 lines below, on line 32;
\* the finding is likely.
C16_Witness ==
    /\ scan_pc = "done"
    /\ Len(scan_lines) >= 33
    /\ Len(scan_findings) = 1
    /\ scan_findings[1].line = 17 /\ scan_findings[1].confidence = "likely"
    /\ \A j \in 1..Len(scan_lines) : HasSensitiveName(scan_lines[j]) <=> j = 32

(***************************************************************************)
(* Claims about MIR detector 1 (SpecMIR)                                   *)
(***************************************************************************)
\* The MIR text of a run holds one function.  Its slots, read off the text:
MirTextSlots(k) == {mir_text[i].slot : i \in {j \in 1..Len(mir_text) : mir_text[j].k = k}}

MirTextHasReturn == \E i \in 1..Len(mir_text) : mir_text[i].k = "return"

\* the debug name of a slot, "" when the text names none
MirTextName(slot) ==
    IF \E i \in 1..Len(mir_text) : mir_text[i].k = "debug" /\ mir_text[i].slot = slot
    THEN mir_text[CHOOSE i \in 1..Len(mir_text) :
                     /\ mir_text[i].k = "debug" /\ mir_text[i].slot = slot
                     /\ \A j \in (i + 1)..Len(mir_text) :
                          ~(mir_text[j].k = "debug" /\ mir_text[j].slot = slot)].name
    ELSE ""

\* the slot is sensitive: its name matches the built-in pattern or is the
\* name of a sensitive object
MirTextSensitive(slot) ==
    MirTextName(slot) \in {"key", "token"} \cup (Range(mir_secrets) \ {""})

\* the slots detector 1 has to report
MirTextUndead ==
    {slot \in MirTextSlots("drop") \ MirTextSlots("StorageDead") : MirTextSensitive(slot)}

\* the findings of detector 1 in the output of a run (the findings of the
\* resume detector carry no slot)
MirDropFindings(out) == SelectSeq(out, LAMBDA f : f.slot # 0)

\* C17: in every run detect_drop_before_storagedead emits at most one finding
\* per slot (exactly one for a sensitive slot that is in some drop(_X) and in
\* no StorageDead(_X), none for any other slot); the finding's category is
\* NOT_ON_ALL_PATHS when the function body holds a return and
\* MISSING_SOURCE_ZEROIZE otherwise, never both for one slot; its symbol is
\* the slot's debug name.
C17_OneFindingPerUndeadSlot ==
    \A r \in 1..Len(mir_out) :
        LET fs == MirDropFindings(mir_out[r])
        IN /\ \A i, j \in 1..Len(fs) : fs[i].slot = fs[j].slot => i = j
           /\ {fs[i].slot : i \in 1..Len(fs)} = MirTextUndead
           /\ \A i \in 1..Len(fs) :
                /\ fs[i].category = IF MirTextHasReturn THEN "NOT_ON_ALL_PATHS"
                                    ELSE "MISSING_SOURCE_ZEROIZE"
                /\ fs[i].symbol = MirTextName(fs[i].slot)

\* C17 witness: a run on a body with drop(_1), no StorageDead(_1) and a
\* return, where debug key => _1: the output is one NOT_ON_ALL_PATHS finding
\* with the symbol key.
C17_Witness ==
    /\ Len(mir_out) >= 1
    /\ 1 \in MirTextSlots("drop") /\ 1 \notin MirTextSlots("StorageDead")
    /\ MirTextHasReturn
    /\ Len(mir_out[1]) = 1
    /\ mir_out[1][1].category = "NOT_ON_ALL_PATHS"
    /\ mir_out[1][1].symbol = "key"
    /\ mir_out[1][1].slot = 1

(***************************************************************************)
(* Claims about the multi-level comparison of the IR diff (SpecIRMulti)    *)
(***************************************************************************)
\* the adjacent pairs of the present levels, in level order
IRAdjacentPairs ==
    LET order == SelectSeq(<<"O0", "O1", "O2", "O3">>, LAMBDA l : l \in ir_present)
    IN {<<order[i], order[i + 1]>> : i \in 1..(Len(order) - 1)}

\* symbol S has more volatile stores at level a than at level b
IRDrops(S, a, b) == VolatileStoresTo(ir_text[a], S) > VolatileStoresTo(ir_text[b], S)

\* the findings of the adjacent-pair pass for symbol S whose target level is
\* b (the file of a finding is the file of the level compared to)
IRMultiFindings(S, b) ==
    {i \in IRFindingsOf("multi") : ir_findings[i].symbol = S /\ ir_findings[i].file = b}

IRSymbols == {"key", "buf"}

\* C18: with any of O1, O3 present, the adjacent-pair pass reports symbol S
\* for the pair (a, b) exactly once when (a, b) is an adjacent pair of present
\* levels other than (O0, O2), S has more volatile stores at a than at b, and
\* the direct O0->O2 per-symbol pass has not reported S; it reports nothing
\* else.  So (O0, O2) is never compared a second time, no symbol of the
\* direct pass is reported again, and no (symbol, level pair) has two
\* findings.
C18_MultiLevelNoDuplicates ==
    IRDone =>
        /\ \A S \in IRSymbols : \A b \in IRLevels :
             Cardinality(IRMultiFindings(S, b)) =
               IF \E a \in IRLevels :
                     /\ <<a, b>> \in IRAdjacentPairs
                     /\ <<a, b>> # <<"O0", "O2">>
                     /\ IRDrops(S, a, b)
                     /\ ~IRDrops(S, "O0", "O2")
               THEN 1 ELSE 0
        /\ \A i \in IRFindingsOf("multi") : ir_findings[i].symbol \in IRSymbols
        /\ \A S \in IRSymbols :
             Cardinality({i \in IRFindingsOf("symbol") : ir_findings[i].symbol = S})
               = IF IRDrops(S, "O0", "O2") THEN 1 ELSE 0

\* C18 witness: O1 is present; buf is stored at O0 only and key at O0 and O2
\* but not at O1.  The direct pass reports buf, the pair (O0, O1) reports key
\* and not buf.
C18_Witness ==
    /\ IRDone
    /\ "O1" \in ir_present
    /\ IRDrops("buf", "O0", "O2") /\ IRDrops("buf", "O0", "O1")
    /\ IRDrops("key", "O0", "O1") /\ ~IRDrops("key", "O0", "O2")
    /\ Cardinality(IRMultiFindings("key", "O1")) = 1
    /\ IRMultiFindings("buf", "O1") = {}
    /\ \E i \in IRFindingsOf("symbol") : ir_findings[i].symbol = "buf"

(***************************************************************************)
(* Claims about the x86-64 checks (SpecX86)                                *)
(***************************************************************************)
X86Done == x86_pc = "done"

\* the function has a frame allocation subq $N, %rsp with N > 0
X86HasFrame == \E i \in 1..Len(x86_lines) : RE_FRAME_ALLOC(x86_lines[i].code) > 0

\* the function has a ret with no zero-store on any earlier line
X86HasUnwipedRet ==
    \E r \in 1..Len(x86_lines) :
        /\ RE_RET(x86_lines[r].code)
        /\ \A j \in 1..(r - 1) : ~X86ZeroStore(x86_lines[j].code)

X86FindingsOf(category, what) ==
    {i \in 1..Len(x86_findings) :
        x86_findings[i].category = category /\ x86_findings[i].what = what}

\* C19: check_stack_retention emits STACK_RETENTION (high) for a function
\* exactly when the function holds a frame allocation subq $N, %rsp with
\* N > 0 and a ret that no zero-store precedes on an earlier line; a
\* zero-store after that ret does not count.
C19_StackRetentionOrdering ==
    X86Done =>
        /\ Cardinality(X86FindingsOf("STACK_RETENTION", "frame"))
             = IF X86HasFrame /\ X86HasUnwipedRet THEN 1 ELSE 0
        /\ \A i \in X86FindingsOf("STACK_RETENTION", "frame") :
             x86_findings[i].severity = "high"

\* the lines of the function without their comments
X86Uncommented == [i \in 1..Len(x86_lines) |-> [x86_lines[i] EXCEPT !.comment = ""]]

\* number, category and severity of the findings of each of the three checks
X86Verdict(findings) ==
    [i \in 1..Len(findings) |->
        [category |-> findings[i].category, severity |-> findings[i].severity,
         what |-> findings[i].what]]

\* C20: the text after a # never influences a verdict: the STACK_RETENTION,
\* REGISTER_SPILL and red-zone findings of a function are, in number,
\* category and severity, those of the same function with every comment
\* removed.
C20_CommentsDoNotInfluenceVerdict ==
    X86Done => X86Verdict(x86_findings) = X86Verdict(x86_analyze_function(X86Uncommented))

(***************************************************************************)
(* Claims about the assembly analyzer's main (SpecAsmMain)                 *)
(***************************************************************************)
AsmMainDone == am_pc = "done"

\* C21: every STACK_RETENTION, REGISTER_SPILL and MISSING_SOURCE_ZEROIZE
\* finding written for an input detected as AArch64 carries the
\* [EXPERIMENTAL] marker in its detail.
C21_AArch64FindingsMarked ==
    (AsmMainDone /\ am_arch = "aarch64") =>
        \A i \in 1..Len(am_output) :
            am_output[i].category \in {"STACK_RETENTION", "REGISTER_SPILL",
                                       "MISSING_SOURCE_ZEROIZE"}
                => am_output[i].detail = "[EXPERIMENTAL]"

\* the architecture of a readable assembly file
AmDetected == IF am_asm.status = "ok" THEN detect_architecture(am_asm.lines) ELSE ""

\* the output holds exactly one finding, of the given category
AmSingle(category) == Len(am_output) = 1 /\ am_output[1].category = category

\* unknown architecture: one ANALYSIS_SKIPPED finding with confidence
\* confirmed, no function analyzed, exit 0
AmSkippedOutcome ==
    AmDetected = "unknown" =>
        /\ AmSingle("ANALYSIS_SKIPPED") /\ am_output[1].confidence = "confirmed"
        /\ am_functions = << >> /\ am_raw = << >>
        /\ am_exit = 0

\* missing or unreadable assembly file, or corrupt secrets JSON under a
\* supported architecture: exit 1 and one ANALYSIS_ERROR finding
AmErrorOutcome ==
    (am_asm.status \in {"missing", "unreadable"}
       \/ (am_secrets.status = "corrupt" /\ AmDetected \in {"x86_64", "aarch64"}))
        => am_exit = 1 /\ AmSingle("ANALYSIS_ERROR")

\* C22: with an unknown architecture the analyzer writes exactly one
\* ANALYSIS_SKIPPED finding (confidence confirmed), analyzes no function and
\* exits 0; with a missing or unreadable assembly file or corrupt secrets
\* JSON it exits 1 and the output holds exactly one ANALYSIS_ERROR finding;
\* in no outcome is the output file left unwritten.
C22_AsmOutcomes ==
    AsmMainDone => AmSkippedOutcome /\ AmErrorOutcome /\ am_written

\* the built-in pattern key|secret|...: of the names of the model it
\* matches those that hold SecretKey
BuiltInSensitive(func_name) == \E i \in 1..Len(func_name.segs) : func_name.segs[i].secret

\* the findings the checks give for function k of the parsed file
AmFindingsFor(k) ==
    (IF am_arch = "x86_64"
     THEN analyze_function(am_functions[k].name, am_functions[k].lines)
     ELSE a64_analyze_function(am_functions[k].name, am_functions[k].lines))
    \o check_drop_glue(am_functions[k].name, am_functions[k].lines)

\* C23: with an empty sensitive-object list a function whose name matches
\* the built-in pattern is still analyzed: when the checks have a finding
\* for it, the output holds a finding for its symbol.
C23_EmptyListUsesBuiltInPattern ==
    (AsmMainDone /\ am_exit = 0 /\ am_arch \in {"x86_64", "aarch64"} /\ am_names = << >>) =>
        \A k \in 1..Len(am_functions) :
            (BuiltInSensitive(am_functions[k].name) /\ AmFindingsFor(k) # << >>)
                => \E i \in 1..Len(am_output) :
                      BaseName(am_output[i].symbol) = BaseName(am_functions[k].name)

(***************************************************************************)
(* Claims about compute_dominators and find_all_paths_to_exit (SpecDom,    *)
(* SpecPaths)                                                              *)
(***************************************************************************)
DomDone == gr_pc = "done" /\ DOMAIN dom_sets = GraphNodes

\* the nodes a path from the entry reaches without passing through node d
RECURSIVE ReachAvoiding(_, _, _)
ReachAvoiding(b, d, seen) ==
    LET more == {e[2] : e \in {f \in Range(b.edges) : f[1] \in seen /\ f[2] # d}} \ seen
    IN IF more = {} THEN seen ELSE ReachAvoiding(b, d, seen \cup more)

\* the nodes reachable from the entry; 4 is no node
Reachable(b) == ReachAvoiding(b, 4, {0})

\* d dominates n: every path from the entry to n passes through d
Dominates(b, d, n) == d = 0 \/ n \notin ReachAvoiding(b, d, {0})

\* C24: compute_dominators terminates, returns Dom(entry) = {entry} and, for
\* every node n reachable from the entry, exactly the nodes every path from
\* the entry to n passes through, in whatever order the nodes are visited.
C24_DominatorsExact ==
    DomDone =>
        /\ dom_sets[0] = {0}
        /\ \A n \in Reachable(gr_builder) :
             dom_sets[n] = {d \in GraphNodes : Dominates(gr_builder, d, n)}

\* the while loop of compute_dominators ends (checked under SpecDomFair)
DomTerminates == <>DomDone

\* C26: for every non-entry node without predecessors compute_dominators
\* returns the set of all nodes.
C26_UnreachableKeepUniverse ==
    DomDone =>
        \A n \in GraphNodes \ {0} :
            Predecessors(gr_builder, n) = {} => dom_sets[n] = GraphNodes

PathsDone == gr_pc = "done" /\ dom_sets = << >>

\* p is a path of the graph from the entry that repeats no node, ends at an
\* exit node and passes through no exit node before
IsSimplePathToExit(b, p) ==
    /\ p[1] = 0
    /\ \A i, j \in 1..Len(p) : p[i] = p[j] => i = j
    /\ \A i \in 1..(Len(p) - 1) : <<p[i], p[i + 1]>> \in Range(b.edges)
    /\ \A i \in 1..Len(p) : p[i] \in b.exit_nodes <=> i = Len(p)

SimplePathsToExit(b) ==
    {p \in UNION {[1..n -> GraphNodes] : n \in 1..4} : IsSimplePathToExit(b, p)}

\* C25: find_all_paths_to_exit terminates on every graph, cyclic ones
\* included, and returns exactly the simple paths from the entry node to the
\* first exit node they reach, each once; paths that share nodes are all
\* returned.
C25_PathsTerminateExact ==
    /\ <>PathsDone
    /\ [](PathsDone =>
            /\ Range(dfs_paths) = SimplePathsToExit(gr_builder)
            /\ \A i, j \in 1..Len(dfs_paths) : dfs_paths[i] = dfs_paths[j] => i = j)

\* both branches of an if rejoin at a merge node, which is the exit: both
\* paths are returned
C25_Witness ==
    /\ PathsDone
    /\ Range(gr_builder.edges) = {<<0, 1>>, <<0, 2>>, <<1, 3>>, <<2, 3>>}
    /\ gr_builder.exit_nodes = {3}
    /\ Range(dfs_paths) = {<<0, 1, 3>>, <<0, 2, 3>>}

(***************************************************************************)
(* Claims about the IR-diff analyzer on texts of several functions         *)
(* (SpecIRFn)                                                              *)
(***************************************************************************)
\* the lines of the O2 text with a call-site REGISTER_SPILL finding
ArgLoadFindingLines ==
    {ir_findings[i].line : i \in {j \in 1..Len(ir_findings) :
        ir_findings[j].sec = "argload" /\ ir_findings[j].category = "REGISTER_SPILL"}}

\* line j loads the secret-named value that the call of line i passes, and
\* no line beginning `define` lies between them
LoadInSameFunction(text, j, i) ==
    /\ j < i
    /\ text[j].k = "load" /\ SecretLoadNamed(text[j].sym) /\ text[j].sym = text[i].arg
    /\ \A d \in (j + 1)..(i - 1) : text[d].k # "define"

\* C27: the tracked secret-named loads are dropped at every `define` line: a
\* call-site REGISTER_SPILL finding is produced for a call only when a load
\* of the secret-named value precedes the call within the same function.
C27_LoadsResetAtDefine ==
    IRDone =>
        \A i \in ArgLoadFindingLines :
            /\ ir_text["O2"][i].k = "call"
            /\ \E j \in 1..Len(ir_text["O2"]) : LoadInSameFunction(ir_text["O2"], j, i)

\* C27 witness: the value is loaded in one function and passed to a call in
\* the next one and, after a load of its own, in the same function: only the
\* second call is reported
C27_Witness ==
    /\ IRDone
    /\ \E j, d, i, l, c \in 1..Len(ir_text["O2"]) :
         /\ j < d /\ d < i /\ i < l /\ l < c
         /\ ir_text["O2"][j].k = "load" /\ ir_text["O2"][j].sym = "key"
         /\ ir_text["O2"][d].k = "define"
         /\ ir_text["O2"][i].k = "call" /\ ir_text["O2"][i].sym = "use"
         /\ ir_text["O2"][i].arg = "key"
         /\ LoadInSameFunction(ir_text["O2"], l, c)
         /\ ir_text["O2"][c].k = "call" /\ ir_text["O2"][c].sym = "use"
         /\ i \notin ArgLoadFindingLines /\ c \in ArgLoadFindingLines

(***************************************************************************)
(* Claims about the async-suspension pass                                  *)
(***************************************************************************)

AsyncDone == as_pc = "done"

\* token t of line l is read by a brace counter that skips string literals
\* and line comments
OutsideString(l, t) ==
    Cardinality({s \in 1..(t - 1) : as_lines[l][s] = "\""}) % 2 = 0

BraceCounted(l, t) ==
    /\ OutsideString(l, t)
    /\ \A s \in 1..(t - 1) : ~(as_lines[l][s] = "//" /\ OutsideString(l, s))

\* the positions <<line, token>> of a token in the text
TokenPositions(tok) ==
    UNION {{<<l, t>> : t \in {u \in 1..Len(as_lines[l]) : as_lines[l][u] = tok}} :
           l \in 1..Len(as_lines)}

CountedBraces(brace) == {p \in TokenPositions(brace) : BraceCounted(p[1], p[2])}

Between(positions, h, e) == Cardinality({p \in positions : p[1] \in h..e})

\* the last line of the body of the header on line h: the first line e where
\* a brace was opened in h..e and all are closed; 0 when there is none
BodyEnd(h) ==
    LET opening == CountedBraces("{")
        closing == CountedBraces("}")
        ends == {e \in h..Len(as_lines) :
                    /\ Between(opening, h, e) > 0
                    /\ Between(opening, h, e) = Between(closing, h, e)}
    IN IF ends = {} THEN 0 ELSE CHOOSE e \in ends : \A d \in ends : e <= d

\* the first line of that body: the line of the first opening brace
BodyBegin(h) ==
    LET lines == {p[1] : p \in {q \in CountedBraces("{") : q[1] >= h}}
    IN CHOOSE l \in lines : \A d \in lines : l <= d

\* the bodies <<first line, last line>> of the async fns of the text: those
\* of the header lines outside the body of an earlier async fn
AsyncFnBodies ==
    LET headers == {h \in 1..Len(as_lines) : HasAsyncFn(as_lines[h])}
        end == [h \in headers |-> BodyEnd(h)]
    IN {<<BodyBegin(h), end[h]>> :
            h \in {g \in headers : end[g] # 0 /\ \A f \in headers : f < g => end[f] < g}}

\* the secret-named bindings <<line, token>> inside an async fn body that
\* have an .await after them in the same body: on a later line of the body
\* or later on the binding's own line
BindingsBeforeAwait ==
    LET bodies == AsyncFnBodies
        awaits == TokenPositions(".await")
    IN {b \in TokenPositions("let key =") :
           \E body \in bodies :
               /\ b[1] \in body[1]..body[2]
               /\ \E a \in awaits :
                      \/ a[1] > b[1] /\ a[1] <= body[2]
                      \/ a[1] = b[1] /\ a[2] > b[2]}

AsyncFindingsAt(l) ==
    Cardinality({n \in 1..Len(as_findings) : as_findings[n].line = l})

AsyncFindingsExact ==
    LET bindings == BindingsBeforeAwait
    IN /\ \A n \in 1..Len(as_findings) :
              as_findings[n] = AsyncFinding(as_findings[n].line)
       /\ \A l \in 1..Len(as_lines) :
              AsyncFindingsAt(l) = Cardinality({b \in bindings : b[1] = l})

\* C28: scan_async_suspension terminates on every input, and when it has
\* returned, every secret-named let binding that has an .await after it in
\* the same async fn body (on a later line or later on its own line) has
\* exactly one NOT_ON_ALL_PATHS finding and no other binding has any,
\* whatever the length of the body.
C28_AsyncFindingsExact == <>AsyncDone /\ [](AsyncDone => AsyncFindingsExact)

(***************************************************************************)
(* Claims about the semantic IR analyzer                                   *)
(***************************************************************************)

UnrollDone == uw_pc = "done"

\* the name of an address without its numeric suffix
AddressBase(addr) ==
    LET k == CHOOSE j \in 0..Len(addr) :
                 /\ \A n \in (j + 1)..Len(addr) : addr[n] \in Digits
                 /\ j > 0 => addr[j] \notin Digits
    IN SubSeq(addr, 1, k)

\* the instructions i..j of the block are consecutive zero stores to
\* addresses of one base name that are not all the same address
IsUnrolledRun(bb, i, j) ==
    /\ \A n \in i..j :
           /\ StoresZero(bb.instructions[n])
           /\ AddressBase(bb.instructions[n].operands[2])
                = AddressBase(bb.instructions[i].operands[2])
    /\ \E n \in i..j : bb.instructions[n].operands[2] # bb.instructions[i].operands[2]

HasUnrolledRun(bb) ==
    \E i \in 1..Len(bb.instructions) :
        \E j \in (i + UNROLL_MIN_STORES - 1)..Len(bb.instructions) : IsUnrolledRun(bb, i, j)

\* C29: detect_loop_unrolled_wipes reports LOOP_UNROLLED_WIPE for a block
\* only when the block holds at least 4 consecutive store instructions, with
\* no other instruction between them, that each store an integer zero to
\* destinations of the same base name that differ in the numeric suffix.
C29_UnrolledWipeOnlyForRuns ==
    UnrollDone =>
        \A f \in Range(uw_findings) :
            \E b \in 1..Len(uw_blocks) :
                uw_blocks[b].label = f.block /\ HasUnrolledRun(uw_blocks[b])

SemDone == sem_pc = "done"

\* B lists A among its predecessors exactly when A lists B among its
\* successors, for all blocks A and B of function f
EdgesConsistent(f) ==
    \A A, B \in Range(f.basic_blocks) :
        (A.label \in Range(B.predecessors)) <=> (B.label \in Range(A.successors))

\* the lines of the text that hold an instruction: neither a comment, a
\* define line, a closing brace nor a label
InstructionLines ==
    {n \in 1..Len(sem_lines) :
        /\ sem_lines[n][1] \notin {";", "define", "}"}
        /\ ":" \notin Range(sem_lines[n])}

InSomeBlock(n) ==
    \E f \in Range(sem_functions) :
        \E B \in Range(f.basic_blocks) :
            \E i \in 1..Len(B.instructions) : B.instructions[i].line_num = n

\* C30: after parse_ir, in every function block B lists A among its
\* predecessors exactly when A lists B among its successors, for br and
\* switch and for branches to later and to earlier blocks, and every
\* instruction line of a function body belongs to some basic block.
C30_EdgesConsistentAndLinesKept ==
    SemDone =>
        /\ \A f \in Range(sem_functions) : EdgesConsistent(f)
        /\ \A n \in InstructionLines : InSomeBlock(n)

====
